---- MODULE Spec2Model ----
(***************************************************************************)
(* Staged ingestion pipeline of rag-api: the Redis job store               *)
(* (app/redis_state.py), the six stage triggers and their background       *)
(* units (app/pipeline_routes.py), and the embedding dimension validator   *)
(* (app/validators.py).                                                    *)
(*                                                                         *)
(* Scheduling: every handler and every background unit is an `async def`   *)
(* running on one asyncio event loop; the Redis, Qdrant and boto3 clients  *)
(* are synchronous.  A step of the model is therefore one stretch of code  *)
(* between two points where the coroutine really suspends (an await of the *)
(* extraction or embedding adapter).  The process unit never suspends; its *)
(* three status writes are separate steps so that each stored status is    *)
(* visible, and LoopFree keeps every other coroutine from running between  *)
(* them.                                                                   *)
(*                                                                         *)
(* Data abstraction: a chunk is its index; an entity is (text, type,       *)
(* chunk_index); a relationship is (source, relation, target,              *)
(* chunk_index); an embedding vector is its length; a Qdrant point is its  *)
(* deterministic id.  Of the Neo4j mirror only its outcome is followed     *)
(* (not the nodes, the edges or the neo4j_* counts in the stats); the      *)
(* chunk payloads are followed on their own (artifacts, payloads).         *)
(***************************************************************************)
EXTENDS Integers, Sequences, FiniteSets, TLC

\* ------------------------------------------------------------------ bounds
MaxJobs == 1
MaxChunks == 2
MaxUnits == 1
OtherDim == 768
MaxTexts == 61
MaxRelChunks == 6
MaxEnts == 2
MaxRuns == 2
MaxIdLen == 1
TtlTicks == 2
MaxClock == 5
MaxVector == 2
MaxGraph == 2
MaxTopK == 3
MaxParas == 3
MaxParaLen == 2
MaxChunkSize == 4
MaxOverlap == 2
MaxAnswers == 2
MaxLevel == 3
MaxPos == 3
MaxHeaders == 3
MaxDocs == 2

\* ------------------------------------------------------- program constants
EMBEDDING_DIMENSIONS == 1024
RRF_K == 60
BATCH_SIZE == 50
EMBEDDING_BATCH_SIZE == 50
MINI_BATCH_SIZE == 10
REL_BATCH_SIZE == 5

JobIds == 1..MaxJobs
Files == {"doc.md"}

\* A Redis key is either missing or holds one value: Absent or Some(v).
Absent == <<>>
Some(v) == <<v>>
Val(r) == r[1]
NoError == "<unset>"
NoStatus == ""
NoProgress == <<>>
NoStats == [k \in {} |-> 0]

\* Messages of exceptions raised by external collaborators: str(e) may be
\* empty (an exception constructed without arguments).
AdapterMsgs == {"", "adapter failed"}

VARIABLES
    meta,          \* job:<id>:metadata      JobIds -> Absent or Some(record)
    chunks,        \* job:<id>:chunks        JobIds -> Absent or Some(list)
    entities,      \* job:<id>:entities
    relationships, \* job:<id>:relationships
    units,         \* background units of each job: JobIds -> [1..MaxUnits -> unit]
    chunkPoints,   \* Qdrant collection <name>_chunks: set of point ids
    entityPoints,  \* Qdrant collection <name>_entities
    relPoints,     \* Qdrant collection <name>_relationships
    nextJob,       \* number of job ids handed out by process_document
    deleted,       \* job ids for which delete_job has answered "deleted"
    last           \* the last response or unit log line

\* One call of EmbedService.embed_documents (app/embed_service.py).
VARIABLES
    texts,           \* the texts given to embed_documents
    embeddings,      \* the Ollama embedder: its vector length, the calls that raise
    all_embeddings   \* Absent before the call, Some(list) when it has returned

pipeline == <<meta, chunks, entities, relationships, units, chunkPoints,
              entityPoints, relPoints, nextJob, deleted, last>>

embedCall == <<texts, embeddings, all_embeddings>>

\* One call of LocalGraphEngine.extract_relationships_batch_parallel
\* (app/entity_processor.py).
VARIABLES
    relChunks,     \* the chunks given to the call
    relEntities,   \* the entities given to the call
    gather,        \* the batch loop: offset i, tasks created, LLM calls in flight
    invoked        \* how often the LLM was invoked for each chunk index

relCall == <<relChunks, relEntities, gather, invoked>>

\* Repeated runs of the vectorize units over the artifacts of one job.
VARIABLES
    staged,        \* the job's file and its chunks, entities and relationships
    collections,   \* the three Qdrant collections: stage -> set of point ids
    upserts        \* stage -> the sets of ids upserted, one per finished run

reruns == <<staged, collections, upserts>>

\* The Redis database behind RedisStateManager (app/redis_state.py), key by
\* key: job ids and keys are strings, every key has an expiry.
VARIABLES
    redis,         \* key -> Absent or Some([val, expires])
    now,           \* the clock of the Redis server, in ticks
    history        \* the last operation; when each key was last written and
                   \* each job created

redisDb == <<redis, now, history>>

\* One retrieval: the state handed from node to node of the LangGraph
\* retrieval workflow (langgraph/graphs/retrieval_graph.py), and the locals of
\* one QueryService.hybrid_search (app/query_service.py).
VARIABLES
    vector_results,    \* what the vector search found, best first
    graph_results,     \* what the graph search found
    rerank_top_k,      \* how many results the caller wants
    combined_results,  \* state["combined_results"] / combined
    reranked_results,  \* state["reranked_results"] / the returned "results"
    node               \* how far the retrieval has come

retrieval == <<vector_results, graph_results, rerank_top_k, combined_results,
               reranked_results, node>>

\* One call of MarkdownChunker.chunk (app/markdown_chunker.py).
VARIABLES
    document,      \* the text, as the paragraphs text.split("\n\n") yields
    chunk_size,    \* self.chunk_size
    chunk_overlap, \* self.chunk_overlap
    chunked        \* Absent before the call, Some(chunks) when it has returned

chunking == <<document, chunk_size, chunk_overlap, chunked>>

\* The artifacts of one job on their way into the payloads of its chunk
\* points: what extract_relationships_batch_parallel keeps of the LLM's
\* answers (app/entity_processor.py) and what the vectorize-chunks unit puts
\* into the payloads (app/pipeline_routes.py).
VARIABLES
    artifacts,     \* the job's file, chunks, entities and relationships record
    answers,       \* chunk index -> the list parsed from the LLM's answer
    enrich,        \* the enrich flag of the vectorize-chunks request
    payloads       \* Absent, or Some(the payloads of the points upserted)

enrichment == <<artifacts, answers, enrich, payloads>>

\* One call of MarkdownChunker.build_context_path (app/markdown_chunker.py).
VARIABLES
    headers,       \* what extract_hierarchy found: (level, title, position)
    position,      \* the start offset of the chunk
    context        \* Absent, or Some(the chunk's header_hierarchy and section)

hierarchy == <<headers, position, context>>

\* One run of the LangGraph ingestion workflow
\* (langgraph/graphs/ingest_graph.py).
VARIABLES
    state,         \* the IngestState handed from node to node
    current_node,  \* the node to run next, "END", or "raised"
    ingested,      \* the documents whose graph was stored, in that order
    collaborators  \* "ok", or "failed" once an external call has raised

ingest == <<state, current_node, ingested, collaborators>>

vars == <<pipeline, embedCall, relCall, reruns, redisDb, retrieval, chunking,
          enrichment, hierarchy, ingest>>

store == <<meta, chunks, entities, relationships>>
points == <<chunkPoints, entityPoints, relPoints>>

\* ------------------------------------------------------------ job store

Update(d, u) ==
    [k \in (DOMAIN d) \cup (DOMAIN u) |-> IF k \in DOMAIN u THEN u[k] ELSE d[k]]

\* The share of the work done as a fraction of one.
Ratio(current, total) == current \div total

Percentage(current, total) == (current * 100) \div total

CreateJob(file, status) ==
    [file |-> file,
     status |-> status,
     progress |-> [current |-> 0, total |-> 0, percentage |-> 0],
     stats |-> NoStats,
     error |-> NoError]

UpdateProgress(p, progress) ==
    LET q == [p EXCEPT !.current = progress[1], !.total = progress[2]]
    IN IF q.total > 0
       THEN [q EXCEPT !.percentage = Percentage(q.current, q.total)]
       ELSE q

UpdateJob(m, status, progress, stats, error) ==
    LET m1 == IF status # NoStatus THEN [m EXCEPT !.status = status] ELSE m
        m2 == IF progress # NoProgress
              THEN [m1 EXCEPT !.progress = UpdateProgress(@, progress)]
              ELSE m1
        m3 == IF DOMAIN stats # {}
              THEN [m2 EXCEPT !.stats = Update(@, stats)]
              ELSE m2
        m4 == IF error # ""
              THEN [m3 EXCEPT !.error = error, !.status = "error"]
              ELSE m3
    IN m4

GetList(rec) == IF rec = Absent THEN <<>> ELSE Val(rec)

HasKeys(j) ==
    \/ meta[j] # Absent
    \/ chunks[j] # Absent
    \/ entities[j] # Absent
    \/ relationships[j] # Absent


\* ------------------------------------------------------------ stage tables

Stages == {"process", "extract_entities", "extract_relationships",
           "vectorize_chunks", "vectorize_entities", "vectorize_relationships"}

\* The status a stage's unit writes when it starts its work.
EntryStatus(s) ==
    CASE s = "process" -> "downloading"
      [] s = "extract_entities" -> "extracting_entities"
      [] s = "extract_relationships" -> "extracting_relationships"
      [] s = "vectorize_chunks" -> "embedding"
      [] s = "vectorize_entities" -> "vectorizing_entities"
      [] s = "vectorize_relationships" -> "vectorizing_relationships"

\* TerminalStatus with the status name of the retired validation step for
\* the entity stage.
TerminalStatusRetiredName(s) ==
    CASE s = "process" -> "chunks_ready"
      [] s = "extract_entities" -> "entities_extracted"
      [] s = "extract_relationships" -> "relationships_extracted"
      [] s = "vectorize_chunks" -> "chunks_vectorized"
      [] s = "vectorize_entities" -> "entities_vectorized"
      [] s = "vectorize_relationships" -> "complete"

\* The status a stage's unit writes when its work succeeded.
TerminalStatus(s) ==
    CASE s = "process" -> "chunks_ready"
      [] s = "extract_entities" -> "entities_validated"
      [] s = "extract_relationships" -> "relationships_extracted"
      [] s = "vectorize_chunks" -> "chunks_vectorized"
      [] s = "vectorize_entities" -> "entities_vectorized"
      [] s = "vectorize_relationships" -> "complete"

\* The "status" field of the acknowledgement a stage's trigger returns.
AckStatus(s) ==
    CASE s = "process" -> "processing"
      [] s = "extract_entities" -> "extracting_entities"
      [] s = "extract_relationships" -> "extracting_relationships"
      [] s = "vectorize_chunks" -> "embedding"
      [] s = "vectorize_entities" -> "vectorizing_entities"
      [] s = "vectorize_relationships" -> "vectorizing_relationships"

\* Whether the stage's except clause passes status="error" next to error=str(e).
HandlerSetsStatus(s) ==
    s \in {"extract_relationships", "vectorize_entities", "vectorize_relationships"}

\* ------------------------------------------------------------- adapters

RECURSIVE Flatten(_)
Flatten(ss) == IF ss = <<>> THEN <<>> ELSE Head(ss) \o Flatten(Tail(ss))

\* MarkdownChunker.chunk seen from the pipeline: n chunks, indexed from 0.
ChunkList(n) == [i \in 1..n |-> i - 1]

\* GLiNER on one chunk: the call raises, or predicts 0, 1 or 2 entities.
EntityOutcomes == {"raise", "none", "one", "two"}

Predictions(o) ==
    CASE o = "one" -> <<"a">>
      [] o = "two" -> <<"a", "b">>
      [] OTHER -> <<>>

\* An extraction that ends at the first chunk whose prediction raises.
RECURSIVE ExtractEntitiesUntilFailure(_, _)
ExtractEntitiesUntilFailure(cs, outcome) ==
    IF cs = <<>> \/ outcome[1] = "raise"
    THEN <<>>
    ELSE [k \in 1..Len(Predictions(outcome[1])) |->
             [text |-> Predictions(outcome[1])[k], type |-> "TOOL_LIB",
              chunk_index |-> cs[1]]]
         \o ExtractEntitiesUntilFailure(Tail(cs), Tail(outcome))

\* LocalGraphEngine.extract_entities_batch_parallel: a chunk whose prediction
\* raises is skipped; every entity carries the index of its chunk.
ExtractEntitiesBatch(cs, outcome) ==
    Flatten([i \in 1..Len(cs) |->
        LET ps == Predictions(outcome[i])
        IN [k \in 1..Len(ps) |->
              [text |-> ps[k], type |-> "TOOL_LIB", chunk_index |-> cs[i]]]])

EntitiesOfChunk(es, c) == SelectSeq(es, LAMBDA e : e.chunk_index = c)

\* The LLM on one chunk: the call raises, the answer does not parse, the answer
\* is an empty list, or it is one triple.
RelationOutcomes == {"raise", "unparsable", "empty", "one"}

\* LocalGraphEngine._process_single_relationship_chunk
ProcessSingleRelationshipChunk(c, outcome) ==
    IF outcome = "one"
    THEN <<[source |-> "a", relation |-> "uses", target |-> "b", chunk_index |-> c]>>
    ELSE <<>>

\* Only a chunk with at least two entities is given to the LLM.
NeedsLLM(es, c) == Len(EntitiesOfChunk(es, c)) >= 2

\* A relationship extraction that returns nothing when any chunk failed.
ExtractRelationshipsAllOrNothing(cs, es, outcome) ==
    IF \E i \in 1..Len(cs) :
           NeedsLLM(es, cs[i]) /\ outcome[i] \in {"raise", "unparsable"}
    THEN <<>>
    ELSE Flatten([i \in 1..Len(cs) |->
             IF NeedsLLM(es, cs[i])
             THEN ProcessSingleRelationshipChunk(cs[i], outcome[i])
             ELSE <<>>])

\* LocalGraphEngine.extract_relationships_batch_parallel
ExtractRelationshipsBatch(cs, es, outcome) ==
    Flatten([i \in 1..Len(cs) |->
        IF NeedsLLM(es, cs[i])
        THEN ProcessSingleRelationshipChunk(cs[i], outcome[i])
        ELSE <<>>])

\* The await of asyncio.gather suspends only if some chunk is given to the LLM.
Suspends(cs, es) == \E i \in 1..Len(cs) : NeedsLLM(es, cs[i])

\* validate_embedding_dimensions looking at the first vector only.
ValidateFirstOnly(embs, expected) ==
    embs = <<>> \/ embs[1] = expected

\* validators.validate_embedding_dimensions: TRUE when it returns, FALSE when
\* it raises ValueError.
ValidateEmbeddingDimensions(embs, expected) ==
    \A i \in 1..Len(embs) : embs[i] = expected

DimensionMsg == "Embedding tem dimensao incorreta"

\* Deterministic point ids (uuid5 of the strings below).
ChunkId(doc, c) == <<doc, "chunk", c>>
EntityId(doc, e) == <<doc, "entity", e.text, e.type>>
RelId(doc, r) == <<doc, "rel", r.source, r.relation, r.target>>

\* ---------------------------------------------------------------- units

IdleUnit ==
    [pc |-> "idle", stage |-> "none", cleanup |-> FALSE, store_graph |-> FALSE,
     file |-> "", chunks |-> <<>>, entities |-> <<>>, rels |-> <<>>]

NewUnit(s, cleanup) == [IdleUnit EXCEPT !.pc = "queued", !.stage = s, !.cleanup = cleanup]

\* No unit is in the middle of a stretch of code that runs without suspending:
\* the process unit from its first statement to its last, the
\* extract-relationships unit when no chunk is given to the LLM.
LoopFree ==
    \A j \in JobIds : \A k \in 1..MaxUnits :
        units[j][k].pc \notin {"downloading", "chunking", "running"}

FreeSlot(j) == \E k \in 1..MaxUnits : units[j][k].pc = "idle"

\* background_tasks.add_task: the unit takes the first free slot of the job.
LaunchUnit(j, u) ==
    LET k == CHOOSE k \in 1..MaxUnits :
                 /\ units[j][k].pc = "idle"
                 /\ \A h \in 1..(k - 1) : units[j][h].pc # "idle"
    IN units' = [units EXCEPT ![j][k] = u]

Launch(j, s, cleanup) == LaunchUnit(j, NewUnit(s, cleanup))

\* What the last step answered or logged; a unit that got vectors from
\* embed_documents logs their lengths, and a unit logs what its extraction
\* adapter or the graph store did (adapter).  A step of the pipeline is not a step
\* of the library calls that are followed on their own.
LogA(op, j, code, info, embs, adapter) ==
    /\ last' = [op |-> op, job |-> j, code |-> code, info |-> info, embs |-> embs,
                adapter |-> adapter]
    /\ UNCHANGED <<embedCall, relCall, reruns, redisDb, retrieval, chunking,
                   enrichment, hierarchy, ingest>>

LogE(op, j, code, info, embs) == LogA(op, j, code, info, embs, <<>>)

Log(op, j, code, info) == LogE(op, j, code, info, <<>>)

\* redis_state.update_job called from an except clause whose own failure is
\* swallowed: a missing job leaves the store as it is.
TryUpdate(j, status, progress, stats, error) ==
    meta' = IF meta[j] = Absent
            THEN meta
            ELSE [meta EXCEPT ![j] = Some(UpdateJob(Val(@), status, progress, stats, error))]

\* An except clause that also takes back the statistics of the job.
HandleExceptionRollsBack(j, s, msg) ==
    meta' = IF meta[j] = Absent
            THEN meta
            ELSE [meta EXCEPT ![j] =
                    Some([UpdateJob(Val(@), IF HandlerSetsStatus(s) THEN "error" ELSE NoStatus,
                                    NoProgress, NoStats, msg)
                          EXCEPT !.stats = NoStats])]

\* The except clause of a stage's unit.
HandleException(j, s, msg) ==
    TryUpdate(j, IF HandlerSetsStatus(s) THEN "error" ELSE NoStatus,
              NoProgress, NoStats, msg)

\* No call of embed_documents is being followed.
NoEmbedCall ==
    /\ texts = <<>>
    /\ embeddings = [dim |-> EMBEDDING_DIMENSIONS, failBatch |-> {}, failMini |-> {}]
    /\ all_embeddings = Absent

\* No call of extract_relationships_batch_parallel is being followed.
NoRelCall ==
    /\ relChunks = <<>>
    /\ relEntities = <<>>
    /\ gather = [i |-> 0, tasks |-> {}, calls |-> {}]
    /\ invoked = <<>>

VectorizeStages == {"vectorize_chunks", "vectorize_entities", "vectorize_relationships"}

\* No repeated vectorize run is being followed.
NoReruns ==
    /\ staged = [file |-> "", chunks |-> <<>>, entities |-> <<>>, rels |-> <<>>]
    /\ collections = [s \in VectorizeStages |-> {}]
    /\ upserts = [s \in VectorizeStages |-> <<>>]

\* Strings are sequences of characters; the characters a job id is made of,
\* and the wildcards of a Redis glob pattern.
IdChars == {"a", "b"}
GlobChars == {"*", "?"}

Strings(chars) == UNION {[1..n -> chars] : n \in 1..MaxIdLen}

\* The ids process_document hands out (uuid4), and the ids a caller can put
\* into the path of DELETE /pipeline/job/{job_id}.
StoredIds == Strings(IdChars)
SuppliedIds == Strings(IdChars \cup GlobChars)

StageNames == {"metadata", "chunks", "entities", "relationships"}

\* RedisStateManager._key: f"job:{job_id}:{stage}"; "job" and the stage name
\* are taken as one character each.
Key(job_id, stage) == <<"job", ":">> \o job_id \o <<":", stage>>

Keys == {Key(id, st) : id \in StoredIds, st \in StageNames}

\* The Redis database is empty.
EmptyDb ==
    /\ redis = [k \in Keys |-> Absent]
    /\ now = 0
    /\ history = [op |-> "init", id |-> <<>>,
                  written |-> [k \in Keys |-> 0],
                  created |-> [id \in StoredIds |-> -1]]

\* No retrieval is running.
NoRetrieval ==
    /\ vector_results = <<>>
    /\ graph_results = <<>>
    /\ rerank_top_k = 0
    /\ combined_results = <<>>
    /\ reranked_results = <<>>
    /\ node = "none"

\* The chunker is not running.
NoChunking ==
    /\ document = <<>>
    /\ chunk_size = 0
    /\ chunk_overlap = 0
    /\ chunked = Absent

\* No job's artifacts are being followed into its payloads.
NoEnrichment ==
    /\ artifacts = [file |-> "", chunks |-> <<>>, entities |-> <<>>, rels |-> Absent]
    /\ answers = <<>>
    /\ enrich = FALSE
    /\ payloads = Absent

\* The state run_ingestion hands to graph.invoke: the keys it does not give
\* are not there.
InvokedState ==
    [documents |-> <<>>, processed_count |-> 0, error |-> NoError,
     current_document |-> Absent, chunks |-> Absent, embeddings |-> Absent,
     entities |-> Absent, relationships |-> Absent]

\* No ingestion workflow is running.
NoIngest ==
    /\ state = InvokedState
    /\ current_node = "none"
    /\ ingested = <<>>
    /\ collaborators = "ok"

\* No header path is being built.
NoHierarchy ==
    /\ headers = <<>>
    /\ position = 0
    /\ context = Absent

NoCall ==
    /\ NoEmbedCall /\ NoRelCall /\ NoReruns /\ EmptyDb /\ NoRetrieval /\ NoChunking
    /\ NoEnrichment /\ NoHierarchy /\ NoIngest
    /\ NoHierarchy
    /\ NoIngest

InitPipeline ==
    /\ meta = [j \in JobIds |-> Absent]
    /\ chunks = [j \in JobIds |-> Absent]
    /\ entities = [j \in JobIds |-> Absent]
    /\ relationships = [j \in JobIds |-> Absent]
    /\ units = [j \in JobIds |-> [k \in 1..MaxUnits |-> IdleUnit]]
    /\ chunkPoints = {}
    /\ entityPoints = {}
    /\ relPoints = {}
    /\ nextJob = 0
    /\ deleted = {}
    /\ last = [op |-> "init", job |-> 0, code |-> 0, info |-> "", embs |-> <<>>,
               adapter |-> <<>>]

Init == InitPipeline /\ NoCall

\* ------------------------------------------------------ stage 1: process

\* POST /pipeline/process
ProcessDocument ==
    /\ LoopFree
    /\ \E file \in Files : \E found \in BOOLEAN :
        IF ~found
        THEN /\ Log("process", 0, 404, "")
             /\ UNCHANGED <<store, units, points, nextJob, deleted>>
        ELSE /\ nextJob < MaxJobs
             /\ LET j == nextJob + 1
                IN /\ meta' = [meta EXCEPT ![j] = Some(CreateJob(file, "processing"))]
                   /\ Launch(j, "process", FALSE)
                   /\ Log("process", j, 202, AckStatus("process"))
             /\ nextJob' = nextJob + 1
             /\ UNCHANGED <<chunks, entities, relationships, points, deleted>>

\* _process_document_background, first statement: the status "downloading".
ProcessStart(j, k) ==
    /\ LoopFree
    /\ units[j][k].pc = "queued"
    /\ units[j][k].stage = "process"
    /\ IF meta[j] = Absent
       THEN /\ units' = [units EXCEPT ![j][k] = IdleUnit]
            /\ Log("process_end", j, 0, "job not found")
            /\ UNCHANGED meta
       ELSE /\ units' = [units EXCEPT ![j][k].pc = "downloading"]
            /\ TryUpdate(j, EntryStatus("process"), NoProgress, NoStats, "")
            /\ Log("process_start", j, 0, "")
    /\ UNCHANGED <<chunks, entities, relationships, points, nextJob, deleted>>

\* s3.get_object and the decoding, then the status "chunking".
ProcessDownload(j, k) ==
    /\ units[j][k].pc = "downloading"
    /\ \E fault \in {"ok"} \cup AdapterMsgs :
        IF fault = "ok"
        THEN /\ units' = [units EXCEPT ![j][k].pc = "chunking"]
             /\ TryUpdate(j, "chunking", NoProgress, NoStats, "")
             /\ Log("process_downloaded", j, 0, "")
        ELSE /\ units' = [units EXCEPT ![j][k] = IdleUnit]
             /\ HandleException(j, "process", fault)
             /\ Log("process_end", j, 0, "failed")
    /\ UNCHANGED <<chunks, entities, relationships, points, nextJob, deleted>>

\* chunker.chunk, save_chunks, and the status "chunks_ready".
ProcessChunk(j, k) ==
    /\ units[j][k].pc = "chunking"
    /\ \E n \in 0..MaxChunks :
        /\ chunks' = [chunks EXCEPT ![j] = Some(ChunkList(n))]
        /\ TryUpdate(j, TerminalStatus("process"), <<n, n>>,
                     [x \in {"chunks"} |-> n], "")
    /\ units' = [units EXCEPT ![j][k] = IdleUnit]
    /\ Log("process_end", j, 0, "ok")
    /\ UNCHANGED <<entities, relationships, points, nextJob, deleted>>

\* --------------------------------------------------------- management

\* GET /pipeline/status/{job_id}
GetStatus(j) ==
    /\ LoopFree
    /\ IF meta[j] = Absent
       THEN Log("status", j, 404, "")
       ELSE Log("status", j, 200, Val(meta[j]).status)
    /\ UNCHANGED <<store, units, points, nextJob, deleted>>

\* RedisStateManager.delete_job: every key job:<id>:* goes.
DeleteKeys(j) ==
    /\ meta' = [meta EXCEPT ![j] = Absent]
    /\ chunks' = [chunks EXCEPT ![j] = Absent]
    /\ entities' = [entities EXCEPT ![j] = Absent]
    /\ relationships' = [relationships EXCEPT ![j] = Absent]

\* DELETE /pipeline/job/{job_id}
DeleteJob(j) ==
    /\ LoopFree
    /\ IF HasKeys(j)
       THEN /\ DeleteKeys(j)
            /\ deleted' = deleted \cup {j}
            /\ Log("delete", j, 200, "")
       ELSE /\ Log("delete", j, 404, "")
            /\ UNCHANGED <<store, deleted>>
    /\ UNCHANGED <<units, points, nextJob>>

\* ---------------------------------------------- stage 2: extract-entities

\* POST /pipeline/extract-entities
ExtractEntities(j) ==
    /\ LoopFree
    /\ IF meta[j] = Absent
       THEN Log("extract_entities", j, 404, "") /\ UNCHANGED units
       ELSE IF GetList(chunks[j]) = <<>>
       THEN Log("extract_entities", j, 400, "") /\ UNCHANGED units
       ELSE /\ FreeSlot(j)
            /\ Launch(j, "extract_entities", FALSE)
            /\ Log("extract_entities", j, 200, AckStatus("extract_entities"))
    /\ UNCHANGED <<store, points, nextJob, deleted>>

\* _extract_entities_background up to the await of the extraction.
ExtractEntitiesStart(j, k) ==
    /\ LoopFree
    /\ units[j][k].pc = "queued"
    /\ units[j][k].stage = "extract_entities"
    /\ \E fault \in {"ok"} \cup AdapterMsgs :
        LET cs == GetList(chunks[j])
        IN IF fault # "ok"
           THEN /\ HandleException(j, "extract_entities", fault)
                /\ units' = [units EXCEPT ![j][k] = IdleUnit]
                /\ Log("extract_entities_end", j, 0, "failed")
           ELSE IF cs = <<>>
           THEN /\ TryUpdate(j, NoStatus, NoProgress, NoStats, "No chunks found")
                /\ units' = [units EXCEPT ![j][k] = IdleUnit]
                /\ Log("extract_entities_end", j, 0, "no input")
           ELSE IF meta[j] = Absent
           THEN /\ UNCHANGED meta
                /\ units' = [units EXCEPT ![j][k] = IdleUnit]
                /\ Log("extract_entities_end", j, 0, "job not found")
           ELSE /\ TryUpdate(j, EntryStatus("extract_entities"), NoProgress, NoStats, "")
                /\ units' = [units EXCEPT ![j][k].pc = "waiting", ![j][k].chunks = cs]
                /\ Log("extract_entities_start", j, 0, "")
    /\ UNCHANGED <<chunks, entities, relationships, points, nextJob, deleted>>

\* _extract_entities_background after the extraction returned.
ExtractEntitiesFinish(j, k) ==
    /\ LoopFree
    /\ units[j][k].pc = "waiting"
    /\ units[j][k].stage = "extract_entities"
    /\ \E outcome \in [1..Len(units[j][k].chunks) -> EntityOutcomes] :
        LET es == ExtractEntitiesBatch(units[j][k].chunks, outcome)
        IN /\ entities' = [entities EXCEPT ![j] = Some(es)]
           /\ TryUpdate(j, TerminalStatus("extract_entities"), NoProgress,
                        [x \in {"entities_raw", "entities_validated"} |-> Len(es)], "")
           /\ LogA("extract_entities_end", j, 0,
                   IF meta[j] = Absent THEN "job not found" ELSE "ok", <<>>, outcome)
    /\ units' = [units EXCEPT ![j][k] = IdleUnit]
    /\ UNCHANGED <<chunks, relationships, points, nextJob, deleted>>

\* ----------------------------------------- stage 3: extract-relationships

\* extract_relationships marking the job in progress before it looks for the
\* entities and chunks.
ExtractRelationshipsMarksFirst(j) ==
    /\ LoopFree
    /\ IF meta[j] = Absent
       THEN Log("extract_relationships", j, 404, "") /\ UNCHANGED <<meta, units>>
       ELSE IF GetList(entities[j]) = <<>> \/ GetList(chunks[j]) = <<>>
       THEN /\ TryUpdate(j, "extracting_relationships", NoProgress, NoStats, "")
            /\ Log("extract_relationships", j, 400, "")
            /\ UNCHANGED units
       ELSE /\ FreeSlot(j)
            /\ TryUpdate(j, "extracting_relationships", NoProgress, NoStats, "")
            /\ Launch(j, "extract_relationships", FALSE)
            /\ Log("extract_relationships", j, 200, AckStatus("extract_relationships"))
    /\ UNCHANGED <<chunks, entities, relationships, points, nextJob, deleted>>

\* POST /pipeline/extract-relationships
ExtractRelationships(j) ==
    /\ LoopFree
    /\ IF meta[j] = Absent
       THEN Log("extract_relationships", j, 404, "") /\ UNCHANGED <<meta, units>>
       ELSE IF GetList(entities[j]) = <<>> \/ GetList(chunks[j]) = <<>>
       THEN Log("extract_relationships", j, 400, "") /\ UNCHANGED <<meta, units>>
       ELSE /\ FreeSlot(j)
            /\ TryUpdate(j, "extracting_relationships", NoProgress, NoStats, "")
            /\ Launch(j, "extract_relationships", FALSE)
            /\ Log("extract_relationships", j, 200, AckStatus("extract_relationships"))
    /\ UNCHANGED <<chunks, entities, relationships, points, nextJob, deleted>>

\* The final update_job of the unit without the save_relationships before it.
MarkWithoutSaving(j, rs) ==
    /\ UNCHANGED relationships
    /\ TryUpdate(j, TerminalStatus("extract_relationships"), NoProgress,
                 [x \in {"relationships_extracted"} |-> Len(rs)], "")

\* save_relationships and the final update_job of the unit.
SaveRelationships(j, rs) ==
    /\ relationships' = [relationships EXCEPT ![j] = Some(rs)]
    /\ TryUpdate(j, TerminalStatus("extract_relationships"), NoProgress,
                 [x \in {"relationships_extracted"} |-> Len(rs)], "")

\* _extract_relationships_background up to the await of the extraction; when
\* no chunk has two entities that await does not suspend, and the unit keeps
\* the event loop ("running") until its end.
ExtractRelationshipsStart(j, k) ==
    /\ LoopFree
    /\ units[j][k].pc = "queued"
    /\ units[j][k].stage = "extract_relationships"
    /\ \E fault \in {"ok"} \cup AdapterMsgs :
        LET cs == GetList(chunks[j])
            es == GetList(entities[j])
        IN IF fault # "ok"
           THEN /\ HandleException(j, "extract_relationships", fault)
                /\ units' = [units EXCEPT ![j][k] = IdleUnit]
                /\ Log("extract_relationships_end", j, 0, "failed")
           ELSE IF es = <<>> \/ cs = <<>>
           THEN /\ TryUpdate(j, NoStatus, NoProgress, NoStats, "No entities or chunks found")
                /\ units' = [units EXCEPT ![j][k] = IdleUnit]
                /\ Log("extract_relationships_end", j, 0, "no input")
           ELSE IF meta[j] = Absent
           THEN /\ UNCHANGED meta
                /\ units' = [units EXCEPT ![j][k] = IdleUnit]
                /\ Log("extract_relationships_end", j, 0, "job not found")
           ELSE /\ TryUpdate(j, EntryStatus("extract_relationships"), NoProgress, NoStats, "")
                /\ units' = [units EXCEPT
                      ![j][k].pc = IF Suspends(cs, es) THEN "waiting" ELSE "running",
                      ![j][k].chunks = cs, ![j][k].entities = es]
                /\ Log("extract_relationships_start", j, 0, "")
    /\ UNCHANGED <<chunks, entities, relationships, points, nextJob, deleted>>

\* _extract_relationships_background after the last batch returned.
ExtractRelationshipsFinish(j, k) ==
    /\ \/ units[j][k].pc = "waiting" /\ LoopFree
       \/ units[j][k].pc = "running"
    /\ units[j][k].stage = "extract_relationships"
    /\ \E outcome \in [1..Len(units[j][k].chunks) -> RelationOutcomes] :
        \* the outcome of a chunk that is not given to the LLM does not matter
        /\ \A i \in 1..Len(units[j][k].chunks) :
              ~NeedsLLM(units[j][k].entities, units[j][k].chunks[i]) => outcome[i] = "empty"
        /\ SaveRelationships(j, ExtractRelationshipsBatch(units[j][k].chunks,
                                                          units[j][k].entities, outcome))
        /\ LogA("extract_relationships_end", j, 0,
                IF meta[j] = Absent THEN "job not found" ELSE "ok", <<>>, outcome)
    /\ units' = [units EXCEPT ![j][k] = IdleUnit]
    /\ UNCHANGED <<chunks, entities, points, nextJob, deleted>>

\* ------------------------------------------------- stages 4-6: vectorize

\* embed_service.embed_documents: one vector per text.
EmbedResults(n) == [1..n -> {EMBEDDING_DIMENSIONS, OtherDim}]

\* The points of the batches upserted before batch number b (from 0) raised;
\* with b the number of batches, all of them.
UpsertedBefore(ids, b) ==
    {ids[i] : i \in {i \in 1..Len(ids) : i <= b * BATCH_SIZE}}

NumBatches(ids) == (Len(ids) + BATCH_SIZE - 1) \div BATCH_SIZE

\* The Neo4j mirror of a vectorize unit: not requested, done, or an exception
\* of the graph store somewhere in it.
MirrorOutcomes(store_graph) == IF store_graph THEN {"ok", "failed"} ELSE {"off"}

\* A mirror whose exception reaches the unit's own except clause.
MirrorFaultPropagates(mirror) == IF mirror = "failed" THEN "adapter failed" ELSE "ok"

\* What the unit sees of the mirror: its try/except turns every exception of
\* the graph store into a warning.
MirrorFault(mirror) == "ok"

\* A vectorize trigger: the job and the stage's artifact must be there.
VectorizeTrigger(j, s, artifact, cleanup, store_graph) ==
    /\ LoopFree
    /\ IF meta[j] = Absent
       THEN Log(s, j, 404, "") /\ UNCHANGED units
       ELSE IF GetList(artifact) = <<>>
       THEN Log(s, j, 400, "") /\ UNCHANGED units
       ELSE /\ FreeSlot(j)
            /\ LaunchUnit(j, [NewUnit(s, cleanup) EXCEPT !.store_graph = store_graph])
            /\ Log(s, j, 200, AckStatus(s))
    /\ UNCHANGED <<store, points, nextJob, deleted>>

\* POST /pipeline/vectorize-chunks
VectorizeChunks(j) == VectorizeTrigger(j, "vectorize_chunks", chunks[j], FALSE, FALSE)

\* POST /pipeline/vectorize-entities
VectorizeEntities(j) ==
    \E store_graph \in BOOLEAN :
        VectorizeTrigger(j, "vectorize_entities", entities[j], FALSE, store_graph)

\* POST /pipeline/vectorize-relationships
VectorizeRelationships(j) ==
    \E cleanup \in BOOLEAN : \E store_graph \in BOOLEAN :
        VectorizeTrigger(j, "vectorize_relationships", relationships[j], cleanup, store_graph)

\* A vectorize unit up to the await of embed_documents: the imports, the read
\* of the artifact, the entry status, ensure_collections.
VectorizeStart(j, k, s, artifact, missing) ==
    /\ LoopFree
    /\ units[j][k].pc = "queued"
    /\ units[j][k].stage = s
    /\ \E fault \in {"ok"} \cup AdapterMsgs : \E point \in {"import", "ensure"} :
        LET items == GetList(artifact)
        IN IF fault # "ok" /\ point = "import"
           THEN /\ HandleException(j, s, fault)
                /\ units' = [units EXCEPT ![j][k] = IdleUnit]
                /\ Log(s \o "_end", j, 0, "failed")
           ELSE IF items = <<>>
           THEN /\ TryUpdate(j, NoStatus, NoProgress, NoStats, missing)
                /\ units' = [units EXCEPT ![j][k] = IdleUnit]
                /\ Log(s \o "_end", j, 0, "no input")
           ELSE IF meta[j] = Absent
           THEN /\ UNCHANGED meta
                /\ units' = [units EXCEPT ![j][k] = IdleUnit]
                /\ Log(s \o "_end", j, 0, "job not found")
           ELSE IF fault # "ok"
           THEN \* update_job(status=entry), then ensure_collections raises
                /\ meta' = [meta EXCEPT ![j] =
                      Some(UpdateJob(UpdateJob(Val(@), EntryStatus(s), NoProgress, NoStats, ""),
                                     IF HandlerSetsStatus(s) THEN "error" ELSE NoStatus,
                                     NoProgress, NoStats, fault))]
                /\ units' = [units EXCEPT ![j][k] = IdleUnit]
                /\ Log(s \o "_end", j, 0, "failed")
           ELSE /\ TryUpdate(j, EntryStatus(s), NoProgress, NoStats, "")
                /\ units' = [units EXCEPT ![j][k].pc = "waiting",
                                          ![j][k].file = Val(meta[j]).file,
                                          ![j][k].chunks = IF s = "vectorize_chunks" THEN items ELSE <<>>,
                                          ![j][k].entities = IF s = "vectorize_entities" THEN items ELSE <<>>,
                                          ![j][k].rels = IF s = "vectorize_relationships" THEN items ELSE <<>>]
                /\ Log(s \o "_start", j, 0, "")
    /\ UNCHANGED <<chunks, entities, relationships, points, nextJob, deleted>>

VectorizeChunksStart(j, k) ==
    VectorizeStart(j, k, "vectorize_chunks", chunks[j], "No chunks found")

VectorizeEntitiesStart(j, k) ==
    VectorizeStart(j, k, "vectorize_entities", entities[j], "No entities found")

VectorizeRelationshipsStart(j, k) ==
    VectorizeStart(j, k, "vectorize_relationships", relationships[j], "No relationships found")

\* _generate_embeddings_background after embed_documents returned.
VectorizeChunksFinish(j, k) ==
    /\ LoopFree
    /\ units[j][k].pc = "waiting"
    /\ units[j][k].stage = "vectorize_chunks"
    /\ LET u == units[j][k]
           ids == [i \in 1..Len(u.chunks) |-> ChunkId(u.file, u.chunks[i])]
       IN \E embs \in EmbedResults(Len(u.chunks)) : \E fault \in {"ok"} \cup AdapterMsgs :
           IF ~ValidateEmbeddingDimensions(embs, EMBEDDING_DIMENSIONS)
           THEN /\ fault = "ok"
                /\ HandleException(j, "vectorize_chunks", DimensionMsg)
                /\ LogE("vectorize_chunks_end", j, 0, "dimension", embs)
                /\ UNCHANGED chunkPoints
           ELSE IF fault # "ok"
           THEN /\ \E b \in 0..(NumBatches(ids) - 1) :
                       chunkPoints' = chunkPoints \cup UpsertedBefore(ids, b)
                /\ HandleException(j, "vectorize_chunks", fault)
                /\ LogE("vectorize_chunks_end", j, 0, "failed", embs)
           ELSE /\ chunkPoints' = chunkPoints \cup UpsertedBefore(ids, NumBatches(ids))
                /\ TryUpdate(j, TerminalStatus("vectorize_chunks"), NoProgress,
                             [x \in {"chunks_vectorized"} |-> Len(u.chunks)], "")
                /\ LogE("vectorize_chunks_end", j, 0,
                       IF meta[j] = Absent THEN "job not found" ELSE "ok", embs)
    /\ units' = [units EXCEPT ![j][k] = IdleUnit]
    /\ UNCHANGED <<chunks, entities, relationships, entityPoints, relPoints, nextJob, deleted>>

\* _vectorize_entities_background after embed_documents returned; the job's
\* metadata is read again here for the document id.
VectorizeEntitiesFinish(j, k) ==
    /\ LoopFree
    /\ units[j][k].pc = "waiting"
    /\ units[j][k].stage = "vectorize_entities"
    /\ LET u == units[j][k]
       IN \E embs \in EmbedResults(Len(u.entities)) : \E fault \in {"ok"} \cup AdapterMsgs :
           IF ~ValidateEmbeddingDimensions(embs, EMBEDDING_DIMENSIONS)
           THEN /\ fault = "ok"
                /\ HandleException(j, "vectorize_entities", DimensionMsg)
                /\ LogE("vectorize_entities_end", j, 0, "dimension", embs)
                /\ UNCHANGED entityPoints
           ELSE IF meta[j] = Absent
           THEN /\ fault = "ok"
                /\ UNCHANGED <<meta, entityPoints>>
                /\ LogE("vectorize_entities_end", j, 0, "job not found", embs)
           ELSE LET ids == [i \in 1..Len(u.entities) |->
                               EntityId(Val(meta[j]).file, u.entities[i])]
                IN IF fault # "ok"
                   THEN /\ \E b \in 0..(NumBatches(ids) - 1) :
                               entityPoints' = entityPoints \cup UpsertedBefore(ids, b)
                        /\ HandleException(j, "vectorize_entities", fault)
                        /\ LogE("vectorize_entities_end", j, 0, "failed", embs)
                   ELSE \E mirror \in MirrorOutcomes(u.store_graph) :
                        /\ entityPoints' = entityPoints \cup UpsertedBefore(ids, NumBatches(ids))
                        /\ IF MirrorFault(mirror) # "ok"
                           THEN /\ HandleException(j, "vectorize_entities", MirrorFault(mirror))
                                /\ LogA("vectorize_entities_end", j, 0, "failed", embs, <<mirror>>)
                           ELSE /\ TryUpdate(j, TerminalStatus("vectorize_entities"), NoProgress,
                                     [x \in {"entities_vectorized"} |-> Len(ids)], "")
                                /\ LogA("vectorize_entities_end", j, 0, "ok", embs, <<mirror>>)
    /\ units' = [units EXCEPT ![j][k] = IdleUnit]
    /\ UNCHANGED <<chunks, entities, relationships, chunkPoints, relPoints, nextJob, deleted>>

\* _vectorize_relationships_background after embed_documents returned:
\* validation, upserts, the optional cleanup, then the final update_job.
VectorizeRelationshipsFinish(j, k) ==
    /\ LoopFree
    /\ units[j][k].pc = "waiting"
    /\ units[j][k].stage = "vectorize_relationships"
    /\ LET u == units[j][k]
           ids == [i \in 1..Len(u.rels) |-> RelId(u.file, u.rels[i])]
       IN \E embs \in EmbedResults(Len(u.rels)) : \E fault \in {"ok"} \cup AdapterMsgs :
           IF ~ValidateEmbeddingDimensions(embs, EMBEDDING_DIMENSIONS)
           THEN /\ fault = "ok"
                /\ HandleException(j, "vectorize_relationships", DimensionMsg)
                /\ LogE("vectorize_relationships_end", j, 0, "dimension", embs)
                /\ UNCHANGED <<relPoints, chunks, entities, relationships, deleted>>
           ELSE IF fault # "ok"
           THEN /\ \E b \in 0..(NumBatches(ids) - 1) :
                       relPoints' = relPoints \cup UpsertedBefore(ids, b)
                /\ HandleException(j, "vectorize_relationships", fault)
                /\ LogE("vectorize_relationships_end", j, 0, "failed", embs)
                /\ UNCHANGED <<chunks, entities, relationships, deleted>>
           ELSE \E mirror \in MirrorOutcomes(u.store_graph) :
                /\ relPoints' = relPoints \cup UpsertedBefore(ids, NumBatches(ids))
                /\ IF MirrorFault(mirror) # "ok"
                   THEN /\ HandleException(j, "vectorize_relationships", MirrorFault(mirror))
                        /\ LogA("vectorize_relationships_end", j, 0, "failed", embs, <<mirror>>)
                        /\ UNCHANGED <<chunks, entities, relationships, deleted>>
                   ELSE IF u.cleanup /\ HasKeys(j)
                   THEN \* delete_job removed the metadata: the final update_job raises
                        \* "Job not found", and so does the one in the except clause
                        /\ DeleteKeys(j)
                        /\ deleted' = deleted \cup {j}
                        /\ LogA("vectorize_relationships_end", j, 0, "cleaned", embs, <<mirror>>)
                   ELSE /\ TryUpdate(j, TerminalStatus("vectorize_relationships"), NoProgress,
                                     [x \in {"relationships_vectorized"} |-> Len(ids)]
                                        @@ [x \in {"redis_cleaned"} |-> u.cleanup], "")
                        /\ LogA("vectorize_relationships_end", j, 0,
                               IF meta[j] = Absent THEN "job not found" ELSE "ok", embs,
                               <<mirror>>)
                        /\ UNCHANGED <<chunks, entities, relationships, deleted>>
    /\ units' = [units EXCEPT ![j][k] = IdleUnit]
    /\ UNCHANGED <<chunkPoints, entityPoints, nextJob>>

\* ----------------------------------------------------------- behaviour

Next ==
    \/ ProcessDocument
    \/ \E j \in JobIds :
        \/ GetStatus(j)
        \/ DeleteJob(j)
        \/ ExtractEntities(j)
        \/ ExtractRelationships(j)
        \/ VectorizeChunks(j)
        \/ VectorizeEntities(j)
        \/ VectorizeRelationships(j)
        \/ \E k \in 1..MaxUnits :
            \/ ProcessStart(j, k)
            \/ ProcessDownload(j, k)
            \/ ProcessChunk(j, k)
            \/ ExtractEntitiesStart(j, k)
            \/ ExtractEntitiesFinish(j, k)
            \/ ExtractRelationshipsStart(j, k)
            \/ ExtractRelationshipsFinish(j, k)
            \/ VectorizeChunksStart(j, k)
            \/ VectorizeChunksFinish(j, k)
            \/ VectorizeEntitiesStart(j, k)
            \/ VectorizeEntitiesFinish(j, k)
            \/ VectorizeRelationshipsStart(j, k)
            \/ VectorizeRelationshipsFinish(j, k)

Spec == Init /\ [][Next]_vars

\* -------------------------------------------------- embed_documents alone

\* OllamaEmbeddings.aembed_documents on a slice that starts at offset `at`:
\* one vector per text, in order, of the model's length.
AEmbedDocuments(slice) ==
    [i \in 1..Len(slice) |-> [of |-> slice[i], dim |-> embeddings.dim, zero |-> FALSE]]

\* A fallback that leaves out the texts of a mini-batch that failed again.
NoEmbeddings(mini) == <<>>

\* The fallback for a mini-batch that failed again: one zero vector per text.
ZeroEmbeddings(mini) ==
    [i \in 1..Len(mini) |-> [of |-> mini[i], dim |-> EMBEDDING_DIMENSIONS, zero |-> TRUE]]

Min(a, b) == IF a < b THEN a ELSE b

\* texts[from : from + size] of Python, offsets from 0.
Slice(ts, from, size) == SubSeq(ts, from + 1, Min(from + size, Len(ts)))

\* The retry loop over the mini-batches of the batch that starts at offset i,
\* from the mini-batch at offset j of the batch on.
RECURSIVE RetryMiniBatches(_, _, _)
RetryMiniBatches(batch, i, j) ==
    IF j >= Len(batch)
    THEN <<>>
    ELSE LET mini == Slice(batch, j, MINI_BATCH_SIZE)
         IN (IF (i + j) \in embeddings.failMini
             THEN ZeroEmbeddings(mini)
             ELSE AEmbedDocuments(mini))
            \o RetryMiniBatches(batch, i, j + MINI_BATCH_SIZE)

\* The loop over the batches, from the batch at offset i on.
RECURSIVE EmbedBatches(_, _)
EmbedBatches(ts, i) ==
    IF i >= Len(ts)
    THEN <<>>
    ELSE LET batch == Slice(ts, i, EMBEDDING_BATCH_SIZE)
         IN (IF i \in embeddings.failBatch
             THEN RetryMiniBatches(batch, i, 0)
             ELSE AEmbedDocuments(batch))
            \o EmbedBatches(ts, i + EMBEDDING_BATCH_SIZE)

EmbedDocuments(ts) == EmbedBatches(ts, 0)

\* The offsets at which a batch, and a mini-batch of a batch, can start.
BatchOffsets == {i \in 0..MaxTexts : i % EMBEDDING_BATCH_SIZE = 0}
MiniOffsets == {i \in 0..MaxTexts : (i % EMBEDDING_BATCH_SIZE) % MINI_BATCH_SIZE = 0}

InitEmbed ==
    /\ InitPipeline
    /\ NoChunking
    /\ NoEnrichment
    /\ NoHierarchy
    /\ NoIngest
    /\ NoRelCall
    /\ NoReruns
    /\ EmptyDb
    /\ NoRetrieval
    /\ \E n \in 0..MaxTexts : texts = [i \in 1..n |-> i]
    /\ \E d \in {EMBEDDING_DIMENSIONS, OtherDim} :
       \E fb \in SUBSET BatchOffsets : \E fm \in SUBSET MiniOffsets :
           embeddings = [dim |-> d, failBatch |-> fb, failMini |-> fm]
    /\ all_embeddings = Absent

EmbedDocumentsReturns ==
    /\ all_embeddings = Absent
    /\ all_embeddings' = Some(EmbedDocuments(texts))
    /\ UNCHANGED <<pipeline, chunking, enrichment, hierarchy, ingest, relCall, reruns, redisDb, retrieval, texts, embeddings>>

NextEmbed == EmbedDocumentsReturns

SpecEmbed == InitEmbed /\ [][NextEmbed]_vars

\* ----------------------- extract_relationships_batch_parallel alone

\* The chunks of the batch at offset i whose entities make them a task.
TasksOfBatch(i) ==
    {relChunks[n] : n \in {n \in (i + 1)..Min(i + REL_BATCH_SIZE, Len(relChunks)) :
                               NeedsLLM(relEntities, relChunks[n])}}

\* await asyncio.gather(*tasks) returns as soon as every call has been sent.
GatherReturnsEarly(g) == g.tasks = {}

\* await asyncio.gather(*tasks) returns when every task has finished.
GatherReturns(g) == g.tasks = {} /\ g.calls = {}

\* The loop is over when the offset has passed the last chunk.
LoopEnded(g) == g.i >= Len(relChunks)

InitRel ==
    /\ InitPipeline
    /\ NoChunking
    /\ NoEnrichment
    /\ NoHierarchy
    /\ NoIngest
    /\ NoEmbedCall
    /\ NoReruns
    /\ EmptyDb
    /\ NoRetrieval
    /\ \E n \in 0..MaxRelChunks : \E count \in [1..n -> 0..MaxEnts] :
          /\ relChunks = ChunkList(n)
          /\ relEntities = Flatten([c \in 1..n |->
                               [e \in 1..count[c] |->
                                   [text |-> <<"e", e>>, type |-> "TOOL_LIB",
                                    chunk_index |-> c - 1]]])
          /\ invoked = [c \in 1..n |-> 0]
    /\ gather = [i |-> 0, tasks |-> {}, calls |-> {}]

\* One turn of the loop: the tasks of the batch at offset i are created and
\* handed to gather; a batch without tasks is passed over.
StartBatch ==
    /\ ~LoopEnded(gather)
    /\ GatherReturns(gather)
    /\ gather' = [i |-> gather.i + REL_BATCH_SIZE, tasks |-> TasksOfBatch(gather.i),
                  calls |-> gather.calls]
    /\ UNCHANGED <<pipeline, chunking, enrichment, hierarchy, ingest, embedCall, reruns, redisDb, retrieval, relChunks, relEntities, invoked>>

\* A task runs up to its await of llm_rels.ainvoke: the call is in flight.
InvokeLLM(c) ==
    /\ c \in gather.tasks
    /\ gather' = [gather EXCEPT !.tasks = @ \ {c}, !.calls = @ \cup {c}]
    /\ invoked' = [invoked EXCEPT ![c + 1] = @ + 1]
    /\ UNCHANGED <<pipeline, chunking, enrichment, hierarchy, ingest, embedCall, reruns, redisDb, retrieval, relChunks, relEntities>>

\* The call of a task returns or raises; the task ends either way.
LLMAnswers(c) ==
    /\ c \in gather.calls
    /\ gather' = [gather EXCEPT !.calls = @ \ {c}]
    /\ UNCHANGED <<pipeline, chunking, enrichment, hierarchy, ingest, embedCall, reruns, redisDb, retrieval, relChunks, relEntities, invoked>>

NextRel ==
    \/ StartBatch
    \/ \E c \in 0..(MaxRelChunks - 1) :
        \/ InvokeLLM(c)
        \/ LLMAnswers(c)

SpecRel == InitRel /\ [][NextRel]_vars

\* ------------------------------------------ vectorize units run again

\* Point ids handed out by a counter of the collection.
PointIdsSerial(s) ==
    [i \in 1..Len(CASE s = "vectorize_chunks" -> staged.chunks
                     [] s = "vectorize_entities" -> staged.entities
                     [] OTHER -> staged.rels) |->
        <<staged.file, s, Cardinality(collections[s]) + i>>]

\* The point ids a vectorize unit computes for the staged artifacts.
PointIds(s) ==
    CASE s = "vectorize_chunks" ->
           [i \in 1..Len(staged.chunks) |-> ChunkId(staged.file, staged.chunks[i])]
      [] s = "vectorize_entities" ->
           [i \in 1..Len(staged.entities) |-> EntityId(staged.file, staged.entities[i])]
      [] OTHER ->
           [i \in 1..Len(staged.rels) |-> RelId(staged.file, staged.rels[i])]

\* A job whose three artifacts are staged: what process, extract-entities and
\* extract-relationships leave behind.
InitReruns ==
    /\ InitPipeline
    /\ NoChunking
    /\ NoEnrichment
    /\ NoHierarchy
    /\ NoIngest
    /\ NoEmbedCall
    /\ NoRelCall
    /\ EmptyDb
    /\ NoRetrieval
    /\ \E f \in Files : \E n \in 1..MaxChunks :
       \E eo \in [1..n -> EntityOutcomes] : \E ro \in [1..n -> RelationOutcomes] :
           LET cs == ChunkList(n)
               es == ExtractEntitiesBatch(cs, eo)
           IN staged = [file |-> f, chunks |-> cs, entities |-> es,
                        rels |-> ExtractRelationshipsBatch(cs, es, ro)]
    /\ collections = [s \in VectorizeStages |-> {}]
    /\ upserts = [s \in VectorizeStages |-> <<>>]

\* A vectorize unit of stage s runs to its successful end: every batch of its
\* points is upserted.
VectorizeRun(s) ==
    /\ Len(upserts[s]) < MaxRuns
    /\ PointIds(s) # <<>>
    /\ LET ids == PointIds(s)
           sent == UpsertedBefore(ids, NumBatches(ids))
       IN /\ collections' = [collections EXCEPT ![s] = @ \cup sent]
          /\ upserts' = [upserts EXCEPT ![s] = Append(@, sent)]
    /\ UNCHANGED <<pipeline, chunking, enrichment, hierarchy, ingest, embedCall, relCall, redisDb, retrieval, staged>>

NextReruns == \E s \in VectorizeStages : VectorizeRun(s)

SpecReruns == InitReruns /\ [][NextReruns]_vars

\* ------------------------------------------------ the Redis database

\* Redis glob matching of a text against a pattern: * is any run of
\* characters, ? any one character ([...] and \\ are not followed).
RECURSIVE GlobMatch(_, _)
GlobMatch(pattern, text) ==
    IF pattern = <<>>
    THEN text = <<>>
    ELSE IF Head(pattern) = "*"
    THEN \/ GlobMatch(Tail(pattern), text)
         \/ text # <<>> /\ GlobMatch(pattern, Tail(text))
    ELSE /\ text # <<>>
         /\ Head(pattern) = "?" \/ Head(pattern) = Head(text)
         /\ GlobMatch(Tail(pattern), Tail(text))

\* KEYS pattern: the keys that are there and match.
RedisKeys(pattern) == {k \in Keys : redis[k] # Absent /\ GlobMatch(pattern, k)}

\* SET with KEEPTTL: a key that is there keeps its expiry.
SetKeepTtl(key, ttl, value) ==
    [redis EXCEPT ![key] =
        Some([val |-> value,
              expires |-> IF redis[key] = Absent THEN now + ttl ELSE Val(redis[key]).expires])]

\* SETEX key ttl value: the key expires ttl after this write.
Setex(key, ttl, value) ==
    [redis EXCEPT ![key] = Some([val |-> value, expires |-> now + ttl])]

\* What an operation leaves in the history.
Did(op, id, writes) ==
    history' = [history EXCEPT !.op = op, !.id = id,
                               !.written = [k \in Keys |-> IF k \in writes THEN now ELSE @[k]]]

\* RedisStateManager.create_job for a fresh id
RedisCreateJob(id) ==
    /\ history.created[id] = -1
    /\ redis' = Setex(Key(id, "metadata"), TtlTicks, "created")
    /\ history' = [history EXCEPT !.op = "create_job", !.id = id,
                                  !.written[Key(id, "metadata")] = now,
                                  !.created[id] = now]
    /\ UNCHANGED <<pipeline, chunking, enrichment, hierarchy, ingest, embedCall, relCall, reruns, retrieval, now>>

\* RedisStateManager.update_job: raises ValueError when the metadata is gone.
RedisUpdateJob(id) ==
    /\ history.created[id] # -1
    /\ IF redis[Key(id, "metadata")] = Absent
       THEN /\ UNCHANGED redis
            /\ Did("update_job", id, {})
       ELSE /\ redis' = Setex(Key(id, "metadata"), TtlTicks, "updated")
            /\ Did("update_job", id, {Key(id, "metadata")})
    /\ UNCHANGED <<pipeline, chunking, enrichment, hierarchy, ingest, embedCall, relCall, reruns, retrieval, now>>

\* RedisStateManager.save_chunks, save_entities, save_relationships
RedisSave(id, stage) ==
    /\ history.created[id] # -1
    /\ stage # "metadata"
    /\ redis' = Setex(Key(id, stage), TtlTicks, "saved")
    /\ Did("save_" \o stage, id, {Key(id, stage)})
    /\ UNCHANGED <<pipeline, chunking, enrichment, hierarchy, ingest, embedCall, relCall, reruns, retrieval, now>>

\* RedisStateManager.delete_job with the id the caller supplied.
RedisDeleteJob(job_id) ==
    /\ LET keys == RedisKeys(<<"job", ":">> \o job_id \o <<":", "*">>)
       IN redis' = [k \in Keys |-> IF k \in keys THEN Absent ELSE redis[k]]
    /\ Did("delete_job", job_id, {})
    /\ UNCHANGED <<pipeline, chunking, enrichment, hierarchy, ingest, embedCall, relCall, reruns, retrieval, now>>

\* Time passes on the Redis server: keys whose expiry is reached are gone.
Tick ==
    /\ now < MaxClock
    /\ now' = now + 1
    /\ redis' = [k \in Keys |->
                    IF redis[k] # Absent /\ Val(redis[k]).expires <= now + 1
                    THEN Absent ELSE redis[k]]
    /\ history' = [history EXCEPT !.op = "tick", !.id = <<>>]
    /\ UNCHANGED <<pipeline, chunking, enrichment, hierarchy, ingest, embedCall, relCall, reruns, retrieval>>

InitStore ==
    /\ InitPipeline
    /\ NoChunking
    /\ NoEnrichment
    /\ NoHierarchy
    /\ NoIngest
    /\ NoEmbedCall
    /\ NoRelCall
    /\ NoReruns
    /\ EmptyDb
    /\ NoRetrieval

\* Several jobs in the store, no time passing.
NextKeys ==
    \/ \E id \in StoredIds :
        \/ RedisCreateJob(id)
        \/ RedisUpdateJob(id)
        \/ \E st \in StageNames : RedisSave(id, st)
    \/ \E job_id \in SuppliedIds : RedisDeleteJob(job_id)

SpecKeys == InitStore /\ [][NextKeys]_vars

\* One job in the store while time passes.
TtlJob == <<"a">>

NextTtl ==
    \/ RedisCreateJob(TtlJob)
    \/ RedisUpdateJob(TtlJob)
    \/ \E st \in StageNames : RedisSave(TtlJob, st)
    \/ RedisDeleteJob(TtlJob)
    \/ Tick

SpecTtl == InitStore /\ [][NextTtl]_vars

\* ------------------------------------------------ retrieval

\* The texts a stored chunk can carry ("" when the payload has none) and the
\* similarity scores of the vector search, in tenths.
Texts == {"", "t1", "t2", "t3"}
Scores == {0, 2, 5, 9}

\* Sequences of at most n members of a set.
SeqsUpTo(S, n) == UNION {[1..m -> S] : m \in 0..n}

\* Numbers are fractions <<numerator, denominator>> with a positive
\* denominator; the floating-point rounding of the code is not followed.
Greater(a, b) == a[1] * b[2] > b[1] * a[2]

\* What vector_search puts into state["vector_results"]
VectorHits == [text : Texts, score : Scores, source : {"vector"}]

\* The vector search returns its hits by falling score.
VectorLists ==
    {v \in SeqsUpTo(VectorHits, MaxVector) :
        \A i, j \in 1..Len(v) : i < j => v[i].score >= v[j].score}

\* What graph_search puts into state["graph_results"]: texts that are not
\* empty, each once.
GraphHits == [text : Texts \ {""}, source : {"graph"}]

GraphLists ==
    {g \in SeqsUpTo(GraphHits, MaxGraph) :
        \A i, j \in 1..Len(g) : g[i].text = g[j].text => i = j}

\* max([r["score"] for r in vector_results], default=1.0), in tenths
MaxVectorScore(vs) ==
    IF vs = <<>> THEN 10
    ELSE CHOOSE m \in {vs[i].score : i \in 1..Len(vs)} :
            \A i \in 1..Len(vs) : vs[i].score <= m

\* The combined list as it is: nothing is dropped.
KeepAll(rs, seen) == rs

\* The loop "Remove duplicates based on text content" of merge_results
RECURSIVE UniqueByText(_, _)
UniqueByText(rs, seen) ==
    IF rs = <<>> THEN <<>>
    ELSE LET text == Head(rs).text
         IN IF text # "" /\ text \notin seen
            THEN <<Head(rs)>> \o UniqueByText(Tail(rs), seen \cup {text})
            ELSE UniqueByText(Tail(rs), seen)

\* The scored list in the order it has.
AsScored(rs) == rs

\* sorted(..., key=final_score, reverse=True): a stable sort, the first of
\* the entries with the greatest score comes first.
RECURSIVE SortedByFinalScore(_)
SortedByFinalScore(rs) ==
    IF rs = <<>> THEN <<>>
    ELSE LET i == CHOOSE i \in 1..Len(rs) :
                    /\ \A j \in 1..Len(rs) : ~Greater(rs[j].final_score, rs[i].final_score)
                    /\ \A j \in 1..(i - 1) : Greater(rs[i].final_score, rs[j].final_score)
         IN <<rs[i]>> \o SortedByFinalScore(SubSeq(rs, 1, i - 1) \o SubSeq(rs, i + 1, Len(rs)))

\* seq[:k]
Take(rs, k) == SubSeq(rs, 1, Min(k, Len(rs)))

\* The reciprocal rank alone, without a source boost.
RrfOnly(result, idx) == <<1, RRF_K + idx + 1>>

\* rrf_score + source_boost of rerank_results for the entry at 0-based idx
RerankScore(result, idx) ==
    LET d == RRF_K + idx + 1
    IN IF result.source = "vector"
       THEN <<2 * result.normalized_score[2] + result.normalized_score[1] * d,
              2 * result.normalized_score[2] * d>>
       ELSE <<10 + 3 * d, 10 * d>>

\* A retrieval whose two searches have returned.
InitRetrieval ==
    /\ InitPipeline
    /\ NoChunking
    /\ NoEnrichment
    /\ NoHierarchy
    /\ NoIngest
    /\ NoEmbedCall
    /\ NoRelCall
    /\ NoReruns
    /\ EmptyDb
    /\ vector_results \in VectorLists
    /\ graph_results \in GraphLists
    /\ rerank_top_k \in 0..MaxTopK
    /\ combined_results = <<>>
    /\ reranked_results = <<>>
    /\ node = "merge_results"

\* merge_results; the division by a greatest score of zero raises.
MergeResults ==
    /\ node = "merge_results"
    /\ LET max_vector_score == MaxVectorScore(vector_results)
       IN IF vector_results # <<>> /\ max_vector_score = 0
          THEN /\ node' = "raised"
               /\ UNCHANGED combined_results
          ELSE LET combined ==
                       [i \in 1..Len(vector_results) |->
                           [text |-> vector_results[i].text,
                            score |-> vector_results[i].score,
                            source |-> "vector",
                            normalized_score |-> <<vector_results[i].score, max_vector_score>>]]
                       \o [i \in 1..Len(graph_results) |->
                           [text |-> graph_results[i].text,
                            source |-> "graph",
                            normalized_score |-> <<7, 10>>]]
               IN /\ combined_results' = UniqueByText(combined, {})
                  /\ node' = "rerank_results"
    /\ UNCHANGED <<pipeline, chunking, enrichment, hierarchy, ingest, embedCall, relCall, reruns, redisDb,
                   vector_results, graph_results, rerank_top_k, reranked_results>>

\* rerank_results
RerankResults ==
    /\ node = "rerank_results"
    /\ LET scored == [i \in 1..Len(combined_results) |->
                        [text |-> combined_results[i].text,
                         source |-> combined_results[i].source,
                         final_score |-> RerankScore(combined_results[i], i - 1)]]
       IN reranked_results' = Take(SortedByFinalScore(scored), rerank_top_k)
    /\ node' = "format_context"
    /\ UNCHANGED <<pipeline, chunking, enrichment, hierarchy, ingest, embedCall, relCall, reruns, redisDb,
                   vector_results, graph_results, rerank_top_k, combined_results>>

NextRetrieval == MergeResults \/ RerankResults

SpecRetrieval == InitRetrieval /\ [][NextRetrieval]_vars

\* What QueryService.vector_search returns: hits of the chunk and the entity
\* collection, sorted by score, best first.
QueryHits == [text : Texts, score : Scores, source : {"vector_chunks", "vector_entities"}]

QueryLists ==
    {v \in SeqsUpTo(QueryHits, MaxVector) :
        \A i, j \in 1..Len(v) : i < j => v[i].score >= v[j].score}

\* What QueryService.graph_search returns: entities, without a text.
EntityHits == [entity_name : {"e1", "e2"}, source : {"graph"}]

\* rrf_score + source_boost of hybrid_search for the entry at 0-based idx
HybridScore(result, idx) ==
    LET d == RRF_K + idx + 1
        score == IF "score" \in DOMAIN result THEN result.score ELSE 5
    IN IF result.source = "vector"
       THEN <<20 + score * d, 20 * d>>
       ELSE <<10 + 3 * d, 10 * d>>

\* A hybrid_search whose two searches have returned.
InitHybrid ==
    /\ InitPipeline
    /\ NoChunking
    /\ NoEnrichment
    /\ NoHierarchy
    /\ NoIngest
    /\ NoEmbedCall
    /\ NoRelCall
    /\ NoReruns
    /\ EmptyDb
    /\ vector_results \in QueryLists
    /\ graph_results \in SeqsUpTo(EntityHits, MaxGraph)
    /\ rerank_top_k \in 0..MaxTopK
    /\ combined_results = <<>>
    /\ reranked_results = <<>>
    /\ node = "hybrid_search"

\* QueryService.hybrid_search from "Combine and rerank" to the return
HybridSearch ==
    /\ node = "hybrid_search"
    /\ LET combined == vector_results \o graph_results
           scored == [i \in 1..Len(combined) |->
                        [f \in DOMAIN combined[i] \cup {"final_score"} |->
                            IF f = "final_score" THEN HybridScore(combined[i], i - 1)
                            ELSE combined[i][f]]]
       IN /\ combined_results' = scored
          /\ reranked_results' = Take(SortedByFinalScore(scored), rerank_top_k)
    /\ node' = "returned"
    /\ UNCHANGED <<pipeline, chunking, enrichment, hierarchy, ingest, embedCall, relCall, reruns, redisDb,
                   vector_results, graph_results, rerank_top_k>>

NextHybrid == HybridSearch

SpecHybrid == InitHybrid /\ [][NextHybrid]_vars

\* ------------------------------------------------ the chunker

\* A text is a sequence of characters.  The characters of a paragraph (a
\* paragraph holds no line break) and the separator of paragraphs.
ParaChars == {"x", " "}
Separator == <<"\n", "\n">>

\* The paragraphs text.split("\n\n") can yield, blank ones among them.
RawParagraphs == SeqsUpTo(ParaChars, MaxParaLen)

Max(a, b) == IF a > b THEN a ELSE b

\* str.strip()
RECURSIVE Strip(_)
Strip(str) ==
    IF str = <<>> THEN <<>>
    ELSE IF Head(str) = " " THEN Strip(Tail(str))
    ELSE IF str[Len(str)] = " " THEN Strip(SubSeq(str, 1, Len(str) - 1))
    ELSE str

\* The text the paragraphs were split from.
RECURSIVE JoinParagraphs(_)
JoinParagraphs(paras) ==
    IF paras = <<>> THEN <<>>
    ELSE IF Len(paras) = 1 THEN paras[1]
    ELSE paras[1] \o Separator \o JoinParagraphs(Tail(paras))

\* text.find(sub, start): the lowest 0-based index from start on where sub
\* stands, -1 when there is none.
Find(text, sub, start) ==
    LET hits == {i \in start..(Len(text) - Len(sub)) :
                    SubSeq(text, i + 1, i + Len(sub)) = sub}
    IN IF hits = {} THEN -1
       ELSE CHOOSE i \in hits : \A k \in hits : i <= k

\* str[-n:] for n > 0
LastChars(str, n) == SubSeq(str, Max(1, Len(str) - n + 1), Len(str))

\* A new chunk that holds the overlap and nothing of the paragraph.
OverlapOnly(current_chunk, para, overlap) ==
    LastChars(current_chunk, overlap) \o Separator

\* "Start new chunk with overlap": overlap_text + "\n\n" + para
StartWithOverlap(current_chunk, para, overlap) ==
    LastChars(current_chunk, overlap) \o Separator \o para

\* One round of the loop over the paragraphs of MarkdownChunker.chunk
ChunkParagraph(st, raw, text, size, overlap) ==
    LET para == Strip(raw)
        test_chunk == st.current_chunk
                      \o (IF st.current_chunk # <<>> THEN Separator ELSE <<>>) \o para
    IN IF para = <<>> THEN st
       ELSE IF Len(test_chunk) <= size \/ st.current_chunk = <<>>
       THEN [st EXCEPT !.current_chunk = test_chunk,
                       !.current_start = IF st.current_chunk # <<>> THEN @
                                         ELSE Find(text, para, st.current_pos)]
       ELSE LET end_pos == st.current_start + Len(st.current_chunk)
                saved == Append(st.chunks,
                                [index |-> st.chunk_index,
                                 text |-> st.current_chunk,
                                 start_char |-> st.current_start,
                                 end_char |-> end_pos])
                start == IF overlap > 0
                         THEN Max(0, end_pos - Len(LastChars(st.current_chunk, overlap)))
                         ELSE Find(text, para, st.current_pos)
            IN [chunks |-> saved,
                chunk_index |-> st.chunk_index + 1,
                current_chunk |-> IF overlap > 0
                                  THEN StartWithOverlap(st.current_chunk, para, overlap)
                                  ELSE para,
                current_start |-> start,
                current_pos |-> start]

\* The loop over the paragraphs from paragraph i on
RECURSIVE ChunkLoop(_, _, _, _, _, _)
ChunkLoop(st, paras, i, text, size, overlap) ==
    IF i > Len(paras) THEN st
    ELSE ChunkLoop(ChunkParagraph(st, paras[i], text, size, overlap),
                   paras, i + 1, text, size, overlap)

\* MarkdownChunker.chunk
Chunk(paras, size, overlap) ==
    LET text == JoinParagraphs(paras)
        st == ChunkLoop([chunks |-> <<>>, chunk_index |-> 0, current_chunk |-> <<>>,
                         current_start |-> 0, current_pos |-> 0],
                        paras, 1, text, size, overlap)
    IN IF \A i \in 1..Len(paras) : Strip(paras[i]) = <<>>
       THEN <<>>
       ELSE IF st.current_chunk # <<>>
       THEN Append(st.chunks,
                   [index |-> st.chunk_index,
                    text |-> st.current_chunk,
                    start_char |-> st.current_start,
                    end_char |-> st.current_start + Len(st.current_chunk)])
       ELSE st.chunks

\* A chunker and a document to chunk.
InitChunk ==
    /\ InitPipeline
    /\ NoEnrichment
    /\ NoHierarchy
    /\ NoIngest
    /\ NoEmbedCall
    /\ NoRelCall
    /\ NoReruns
    /\ EmptyDb
    /\ NoRetrieval
    /\ document \in SeqsUpTo(RawParagraphs, MaxParas)
    /\ chunk_size \in 1..MaxChunkSize
    /\ chunk_overlap \in 0..MaxOverlap
    /\ chunked = Absent

\* chunker.chunk(content) returns
ChunkReturns ==
    /\ chunked = Absent
    /\ chunked' = Some(Chunk(document, chunk_size, chunk_overlap))
    /\ UNCHANGED <<pipeline, enrichment, hierarchy, ingest, embedCall, relCall, reruns, redisDb, retrieval,
                   document, chunk_size, chunk_overlap>>

NextChunk == ChunkReturns

SpecChunk == InitChunk /\ [][NextChunk]_vars

\* Both retrievals, the LangGraph workflow and POST /query.
InitFusion == InitRetrieval \/ InitHybrid

NextFusion == NextRetrieval \/ NextHybrid

SpecFusion == InitFusion /\ [][NextFusion]_vars

\* ------------------------------------------------ the header path of a chunk

\* The headings extract_hierarchy can find: "#" to "###", a title, the
\* offset of the line.
Levels == 1..MaxLevel
Titles == {"A", "B"}
Headings == [level : Levels, title : Titles, position : 0..MaxPos]

\* What extract_hierarchy returns: the headings in the order of their
\* offsets, no two at the same offset.
HeaderLists ==
    {hs \in SeqsUpTo(Headings, MaxHeaders) :
        \A i \in 1..(Len(hs) - 1) : hs[i].position < hs[i + 1].position}

\* relevant_headers: the headings before the position.
RelevantHeaders(hs, pos) == SelectSeq(hs, LAMBDA h : h.position < pos)

\* "Pop headers of equal or higher level": the while loop on the stack.
RECURSIVE PopLevels(_, _)
PopLevels(stack, level) ==
    IF stack # <<>> /\ stack[Len(stack)].level >= level
    THEN PopLevels(SubSeq(stack, 1, Len(stack) - 1), level)
    ELSE stack

\* The for loop of build_context_path over the headings from number i on;
\* the stack holds stack_levels and context side by side.
RECURSIVE BuildStack(_, _, _)
BuildStack(stack, relevant, i) ==
    IF i > Len(relevant) THEN stack
    ELSE BuildStack(Append(PopLevels(stack, relevant[i].level),
                           [level |-> relevant[i].level, title |-> relevant[i].title]),
                    relevant, i + 1)

\* MarkdownChunker.build_context_path
BuildContextPath(hs, pos) ==
    LET stack == BuildStack(<<>>, RelevantHeaders(hs, pos), 1)
    IN [i \in 1..Len(stack) |-> stack[i].title]

\* The metadata chunk() gives a chunk that starts at pos.
ChunkMetadata(hs, pos) ==
    LET context_path == BuildContextPath(hs, pos)
    IN [header_hierarchy |-> context_path,
        section |-> IF context_path # <<>> THEN context_path[Len(context_path)]
                    ELSE "Root"]

\* The headings of a document and the start offset of one of its chunks.
InitHierarchy ==
    /\ InitPipeline
    /\ NoEmbedCall
    /\ NoRelCall
    /\ NoReruns
    /\ EmptyDb
    /\ NoRetrieval
    /\ NoChunking
    /\ NoEnrichment
    /\ NoIngest
    /\ headers \in HeaderLists
    /\ position \in 0..MaxPos
    /\ context = Absent

\* chunk() tags the chunk.
TagChunk ==
    /\ context = Absent
    /\ context' = Some(ChunkMetadata(headers, position))
    /\ UNCHANGED <<pipeline, chunking, enrichment, ingest, embedCall, relCall, reruns, redisDb,
                   retrieval, headers, position>>

NextHierarchy == TagChunk

SpecHierarchy == InitHierarchy /\ [][NextHierarchy]_vars

\* ------------------------------------------ the LangGraph ingestion workflow

\* if state.get("error"): an error that is set and not the empty string
Truthy(error) == error \notin {NoError, ""}

\* What an external call does: it returns, or raises with a message.
Faults == {"ok"} \cup AdapterMsgs

\* A step of the workflow is not a step of anything else.
IngestOnly ==
    UNCHANGED <<pipeline, chunking, enrichment, hierarchy, embedCall, relCall, reruns,
                redisDb, retrieval>>

\* except Exception as e: state["error"] = str(e)
Fails(msg) ==
    /\ state' = [state EXCEPT !.error = msg]
    /\ collaborators' = "failed"

\* A node that returns the state as it got it.
Passes == UNCHANGED <<state, collaborators>>

\* scan_minio_bucket
ScanMinioBucket ==
    /\ current_node = "scan_minio"
    /\ \E fault \in Faults : \E n \in 0..MaxDocs :
          IF fault # "ok"
          THEN Fails(fault)
          ELSE /\ state' = [state EXCEPT !.documents = [i \in 1..n |-> i],
                                         !.processed_count = 0]
               /\ UNCHANGED collaborators
    /\ current_node' = "download_document"
    /\ UNCHANGED ingested
    /\ IngestOnly

\* download_document
DownloadDocument ==
    /\ current_node = "download_document"
    /\ IF Truthy(state.error) \/ state.processed_count >= Len(state.documents)
       THEN Passes
       ELSE \E fault \in Faults :
               IF fault # "ok"
               THEN Fails(fault)
               ELSE /\ state' = [state EXCEPT !.current_document =
                                    Some(state.documents[state.processed_count + 1])]
                    /\ UNCHANGED collaborators
    /\ current_node' = "chunk_document"
    /\ UNCHANGED ingested
    /\ IngestOnly

\* chunk_document; state["current_document"] is read before the try.
ChunkDocument ==
    /\ current_node = "chunk_document"
    /\ IF Truthy(state.error)
       THEN Passes /\ current_node' = "generate_embeddings"
       ELSE IF state.current_document = Absent
       THEN Passes /\ current_node' = "raised"
       ELSE /\ \E fault \in Faults : \E n \in 1..MaxChunks :
                  IF fault # "ok"
                  THEN Fails(fault)
                  ELSE /\ state' = [state EXCEPT !.chunks = Some(ChunkList(n))]
                       /\ UNCHANGED collaborators
            /\ current_node' = "generate_embeddings"
    /\ UNCHANGED ingested
    /\ IngestOnly

\* generate_embeddings; state["chunks"] is read before the try.
GenerateEmbeddings ==
    /\ current_node = "generate_embeddings"
    /\ IF Truthy(state.error)
       THEN Passes /\ current_node' = "store_qdrant"
       ELSE IF state.chunks = Absent
       THEN Passes /\ current_node' = "raised"
       ELSE /\ \E fault \in Faults :
                  IF fault # "ok"
                  THEN Fails(fault)
                  ELSE /\ state' = [state EXCEPT !.embeddings = Some(Len(Val(state.chunks)))]
                       /\ UNCHANGED collaborators
            /\ current_node' = "store_qdrant"
    /\ UNCHANGED ingested
    /\ IngestOnly

\* store_in_qdrant; the three keys are read before the try.
StoreInQdrant ==
    /\ current_node = "store_qdrant"
    /\ IF Truthy(state.error)
       THEN Passes /\ current_node' = "extract_entities"
       ELSE IF Absent \in {state.current_document, state.chunks, state.embeddings}
       THEN Passes /\ current_node' = "raised"
       ELSE /\ \E fault \in Faults : IF fault # "ok" THEN Fails(fault) ELSE Passes
            /\ current_node' = "extract_entities"
    /\ UNCHANGED ingested
    /\ IngestOnly

\* extract_entities of the workflow: a failure leaves no entities and no
\* error.
IngestExtractEntities ==
    /\ current_node = "extract_entities"
    /\ IF Truthy(state.error)
       THEN Passes /\ current_node' = "extract_relationships"
       ELSE IF state.chunks = Absent
       THEN Passes /\ current_node' = "raised"
       ELSE /\ \E outcome \in {"failed", "none", "some"} :
                  /\ state' = [state EXCEPT !.entities =
                        Some(IF outcome = "some"
                             THEN <<[name |-> "a", type |-> "KEYWORD", chunk_index |-> 0]>>
                             ELSE <<>>)]
                  /\ collaborators' = IF outcome = "failed" THEN "failed" ELSE collaborators
            /\ current_node' = "extract_relationships"
    /\ UNCHANGED ingested
    /\ IngestOnly

\* extract_relationships of the workflow: the triples the LLM answered, with
\* the keys subject, predicate and object.
IngestExtractRelationships ==
    /\ current_node = "extract_relationships"
    /\ IF Truthy(state.error)
       THEN Passes /\ current_node' = "store_neo4j"
       ELSE IF state.chunks = Absent
       THEN Passes /\ current_node' = "raised"
       ELSE /\ IF GetList(state.entities) = <<>>
               THEN /\ state' = [state EXCEPT !.relationships = Some(<<>>)]
                    /\ UNCHANGED collaborators
               ELSE \E outcome \in {"failed", "empty", "one"} :
                      /\ state' = [state EXCEPT !.relationships =
                            Some(IF outcome = "one"
                                 THEN <<[subject |-> "a", predicate |-> "uses",
                                         object |-> "b", chunk_index |-> 0]>>
                                 ELSE <<>>)]
                      /\ collaborators' = IF outcome = "failed" THEN "failed"
                                          ELSE collaborators
            /\ current_node' = "store_neo4j"
    /\ UNCHANGED ingested
    /\ IngestOnly

\* rel["source"], rel["target"] and rel["type"] of store_in_neo4j: the
\* relationship has none of these keys, the KeyError is caught by the node.
RelKeyError(rel) == IF "source" \in DOMAIN rel THEN "ok" ELSE "'source'"

\* should_continue
ShouldContinue(st) ==
    IF Truthy(st.error) THEN "END"
    ELSE IF st.processed_count < Len(st.documents) THEN "download_document"
    ELSE "END"

\* store_in_neo4j and the conditional edge after it.
StoreInNeo4j ==
    /\ current_node = "store_neo4j"
    /\ IF Truthy(state.error)
       THEN Passes /\ UNCHANGED ingested /\ current_node' = ShouldContinue(state)
       ELSE IF state.current_document = Absent \/ state.chunks = Absent
       THEN Passes /\ UNCHANGED ingested /\ current_node' = "raised"
       ELSE /\ \E fault \in Faults :
                  LET rels == GetList(state.relationships)
                  IN IF fault # "ok"
                     THEN Fails(fault) /\ UNCHANGED ingested
                     ELSE IF \E i \in 1..Len(rels) : RelKeyError(rels[i]) # "ok"
                     THEN /\ state' = [state EXCEPT !.error = RelKeyError(rels[1])]
                          /\ UNCHANGED <<collaborators, ingested>>
                     ELSE /\ state' = [state EXCEPT !.processed_count = @ + 1]
                          /\ ingested' = Append(ingested, Val(state.current_document))
                          /\ UNCHANGED collaborators
            /\ current_node' = ShouldContinue(state')
    /\ IngestOnly

\* graph.invoke of run_ingestion
InitIngest ==
    /\ InitPipeline
    /\ NoEmbedCall
    /\ NoRelCall
    /\ NoReruns
    /\ EmptyDb
    /\ NoRetrieval
    /\ NoChunking
    /\ NoEnrichment
    /\ NoHierarchy
    /\ state = InvokedState
    /\ current_node = "scan_minio"
    /\ ingested = <<>>
    /\ collaborators = "ok"

NextIngest ==
    \/ ScanMinioBucket
    \/ DownloadDocument
    \/ ChunkDocument
    \/ GenerateEmbeddings
    \/ StoreInQdrant
    \/ IngestExtractEntities
    \/ IngestExtractRelationships
    \/ StoreInNeo4j

SpecIngest == InitIngest /\ [][NextIngest]_vars

\* ------------------------------------ relationships kept, payloads enriched

\* What the LLM's answer may hold for one relationship: a JSON object with a
\* source, a target and, or not, a relation, each a string that may be empty.
\* (An element that is no object is dropped like an object without a source.)
Candidates ==
    [source : {"", "a"}, target : {"", "b"}]
    \cup [source : {"", "a"}, relation : {"", "uses"}, target : {"", "b"}]

\* dict.get(key, ""), and dict.get(key) tested for truth
Get(r, key) == IF key \in DOMAIN r THEN r[key] ELSE ""

\* The test of _process_single_relationship_chunk on one parsed element.
IsValidRel(r) == Get(r, "source") # "" /\ Get(r, "target") # ""

\* _process_single_relationship_chunk after the parse: the elements with a
\* source and a target, each given the index of the chunk.
ValidRels(rels, index) ==
    LET kept == SelectSeq(rels, IsValidRel)
    IN [i \in 1..Len(kept) |-> [x \in {"chunk_index"} |-> index] @@ kept[i]]

\* extract_relationships_batch_parallel over the parsed answers.
ExtractRelationshipsParsed(cs, es, parsed) ==
    Flatten([i \in 1..Len(cs) |->
        IF NeedsLLM(es, cs[i]) THEN ValidRels(parsed[i], cs[i]) ELSE <<>>])

\* entities_by_chunk.get(chunk_idx, []): the texts of the chunk's entities.
EntitiesByChunk(es, c) ==
    LET mine == EntitiesOfChunk(es, c)
    IN [i \in 1..Len(mine) |-> mine[i].text]

\* What the unit appends to rels_by_chunk for one stored relationship.
RelPayload(rel) ==
    [subject |-> Get(rel, "subject"), predicate |-> Get(rel, "predicate"),
     object |-> Get(rel, "object")]

\* rels_by_chunk.get(chunk_idx, [])
RelsByChunk(rs, c) ==
    LET mine == SelectSeq(rs, LAMBDA r : r.chunk_index = c)
    IN [i \in 1..Len(mine) |-> RelPayload(mine[i])]

\* The payload of the point of chunk c (its text and metadata left out).
Payload(file, c, es, rs, enriched) ==
    IF enriched
    THEN [type |-> "chunk", document_id |-> file, chunk_index |-> c,
          entities |-> EntitiesByChunk(es, c), relationships |-> RelsByChunk(rs, c)]
    ELSE [type |-> "chunk", document_id |-> file, chunk_index |-> c]

\* A job after extract-entities, the answers the LLM will give for its chunks
\* with two entities, and a vectorize-chunks request.
InitEnrich ==
    /\ InitPipeline
    /\ NoHierarchy
    /\ NoIngest
    /\ NoEmbedCall
    /\ NoRelCall
    /\ NoReruns
    /\ EmptyDb
    /\ NoRetrieval
    /\ NoChunking
    /\ \E f \in Files : \E n \in 1..MaxChunks : \E eo \in [1..n -> EntityOutcomes] :
          /\ artifacts = [file |-> f, chunks |-> ChunkList(n),
                          entities |-> ExtractEntitiesBatch(ChunkList(n), eo),
                          rels |-> Absent]
          /\ answers \in [1..n -> SeqsUpTo(Candidates, MaxAnswers)]
          /\ \A i \in 1..n :
                ~NeedsLLM(artifacts.entities, artifacts.chunks[i]) => answers[i] = <<>>
    /\ enrich \in BOOLEAN
    /\ payloads = Absent

\* _extract_relationships_background: the extraction and save_relationships.
SaveExtracted ==
    /\ artifacts.rels = Absent
    /\ artifacts.entities # <<>>
    /\ artifacts' = [artifacts EXCEPT !.rels =
          Some(ExtractRelationshipsParsed(artifacts.chunks, artifacts.entities, answers))]
    /\ UNCHANGED <<pipeline, chunking, hierarchy, ingest, embedCall, relCall, reruns, redisDb,
                   retrieval, answers, enrich, payloads>>

\* _generate_embeddings_background: the artifacts read and mapped by chunk,
\* the payloads built from them and upserted.
UpsertPayloads ==
    /\ payloads = Absent
    /\ payloads' = Some([i \in 1..Len(artifacts.chunks) |->
          Payload(artifacts.file, artifacts.chunks[i], artifacts.entities,
                  GetList(artifacts.rels), enrich)])
    /\ UNCHANGED <<pipeline, chunking, hierarchy, ingest, embedCall, relCall, reruns, redisDb,
                   retrieval, artifacts, answers, enrich>>

NextEnrich == SaveExtracted \/ UpsertPayloads

SpecEnrich == InitEnrich /\ [][NextEnrich]_vars

\* =================================================================== claims

\* The pipeline order of the statuses, as the specification lists it.
Order ==
    <<"processing", "downloading", "chunking", "chunks_ready",
      "extracting_entities", "entities_validated",
      "extracting_relationships", "relationships_extracted",
      "embedding", "chunks_vectorized",
      "vectorizing_entities", "entities_vectorized",
      "vectorizing_relationships", "complete">>

StageOrder ==
    <<"process", "extract_entities", "extract_relationships",
      "vectorize_chunks", "vectorize_entities", "vectorize_relationships">>

EntryStates == {EntryStatus(s) : s \in Stages}

\* A status change the order allows: to the immediate successor, to error, or
\* from error to the entry state of a stage.
Allowed(old, new) ==
    \/ new = "error"
    \/ \E i \in 1..(Len(Order) - 1) : Order[i] = old /\ Order[i + 1] = new
    \/ old = "error" /\ new \in EntryStates

\* The statuses at which the pipeline order lets a step of stage s act: a
\* trigger or a starting unit at the preceding stage's terminal status, at the
\* stage's own entry status or at error; a later step of the unit at the status
\* the unit wrote last.
InTurn(s, pc) ==
    IF s = "process"
    THEN CASE pc = "queued" -> {"processing"}
           [] pc = "downloading" -> {"downloading"}
           [] pc = "chunking" -> {"chunking"}
           [] OTHER -> {}
    ELSE IF pc \in {"waiting", "running"}
    THEN {EntryStatus(s)}
    ELSE {EntryStatus(s), "error"} \cup
         {TerminalStatus(StageOrder[i]) : i \in {i \in 1..5 : StageOrder[i + 1] = s}}

\* The unit in slot k of job j takes this step, as a unit of stage s.
Acts(j, k, s) ==
    /\ units'[j][k] # units[j][k]
    /\ s = (IF units[j][k].stage # "none" THEN units[j][k].stage ELSE units'[j][k].stage)

StatusChanges(j) ==
    /\ meta[j] # Absent
    /\ meta'[j] # Absent
    /\ Val(meta'[j]).status # Val(meta[j]).status

\* C1, as claimed: every change of a job's stored status goes to the immediate
\* successor in the pipeline order, to error, or from error to a stage's
\* entry state, whatever the order in which the caller issues the triggers.
C1_AnyOrder ==
    [][\A j \in JobIds :
          StatusChanges(j) => Allowed(Val(meta[j]).status, Val(meta'[j]).status)]_vars

\* C1, amended: a status change made by a stage's trigger or unit that finds
\* the job where the pipeline order puts it (InTurn) goes to the immediate
\* successor, to error, or from error to the stage's entry state.
C1_InTurn ==
    [][\A j \in JobIds : \A k \in 1..MaxUnits : \A s \in Stages :
          (/\ Acts(j, k, s)
           /\ StatusChanges(j)
           /\ Val(meta[j]).status \in InTurn(s, units[j][k].pc))
          => Allowed(Val(meta[j]).status, Val(meta'[j]).status)]_vars

\* C1 witness: a job walked the order to its end without an error.
C1_Witness ==
    \E j \in JobIds :
        /\ meta[j] # Absent
        /\ Val(meta[j]).status = "complete"
        /\ Val(meta[j]).error = NoError
        /\ DOMAIN Val(meta[j]).stats =
              {"chunks", "entities_raw", "entities_validated", "relationships_extracted",
               "chunks_vectorized", "entities_vectorized", "relationships_vectorized",
               "redis_cleaned"}

\* C2, as claimed: in every state of a job's metadata, the status is error
\* if and only if the error field is set.
C2_ErrorIffStatus ==
    \A j \in JobIds :
        meta[j] # Absent =>
            (Val(meta[j]).status = "error" <=> Val(meta[j]).error # NoError)

\* The step is the end of a unit of job j whose adapter call raised.
UnitFailed(j) ==
    /\ last'.job = j
    /\ last'.info = "failed"
    /\ \E k \in 1..MaxUnits : \E s \in Stages :
          Acts(j, k, s) /\ units'[j][k].pc = "idle"

\* C3, as claimed: when an adapter call raises inside a stage's unit and the
\* job still exists, the stored status becomes error and the error field
\* holds a message; the job does not stay in the in-progress status.
C3_FailureSetsError ==
    [][\A j \in JobIds :
          (UnitFailed(j) /\ meta'[j] # Absent)
          => /\ Val(meta'[j]).status = "error"
             /\ Val(meta'[j]).error # NoError]_vars

\* The step is stage s entering its work on job j: the accepted trigger of
\* extract-relationships, or a unit that wrote its entry status.
Enters(j, s) ==
    \E k \in 1..MaxUnits :
        /\ Acts(j, k, s)
        /\ \/ units[j][k].pc = "queued"
              /\ units'[j][k].pc \in {"waiting", "running", "downloading"}
           \/ s = "extract_relationships" /\ units[j][k].pc = "idle"

\* The step is the successful end of a unit of stage s of job j.
Succeeds(j, s) ==
    /\ last'.job = j
    /\ last'.info = "ok"
    /\ \E k \in 1..MaxUnits : Acts(j, k, s) /\ units'[j][k].pc = "idle"

\* C4, as claimed: re-invoking a stage on a job whose status is error clears
\* the error field and moves the status to the stage's entry state, and a
\* stage that then succeeds leaves its terminal status and no error message.
C4_RetryClearsError ==
    [][\A j \in JobIds : \A s \in Stages :
          /\ (Enters(j, s) /\ meta[j] # Absent /\ meta'[j] # Absent
                /\ Val(meta[j]).status = "error")
             => /\ Val(meta'[j]).status = EntryStatus(s)
                /\ Val(meta'[j]).error = NoError
          /\ (Succeeds(j, s) /\ meta'[j] # Absent)
             => /\ Val(meta'[j]).status = TerminalStatus(s)
                /\ Val(meta'[j]).error = NoError]_vars

\* The step is the acknowledgement of a stage trigger.
Acknowledged(s) ==
    /\ last'.op = s
    /\ last'.code \in {200, 202}

\* C5, as claimed: when a stage trigger returns its acknowledgement, the
\* job's stored status is the in-progress status the acknowledgement names.
C5_AckStatusStored ==
    [][\A s \in Stages :
          Acknowledged(s)
          => /\ meta'[last'.job] # Absent
             /\ Val(meta'[last'.job]).status = last'.info]_vars

\* The step is the rejection of a stage trigger for a missing prerequisite.
Rejected ==
    /\ last'.op \in Stages
    /\ last'.code \in {400, 404}

\* C6: a stage trigger rejected for a missing prerequisite launches no unit
\* and leaves the metadata and the artifact records of every job unchanged.
C6_RejectionChangesNothing ==
    [][Rejected => UNCHANGED <<meta, chunks, entities, relationships, units, nextJob>>]_vars

\* C6 witness: extract-relationships was rejected for a job that exists, has
\* chunks and has a status other than the initial one.
C6_Witness ==
    /\ last.op = "extract_relationships"
    /\ last.code = 400
    /\ meta[last.job] # Absent
    /\ GetList(chunks[last.job]) # <<>>
    /\ Val(meta[last.job]).status = "entities_validated"

\* C7, as claimed: once delete_job has answered for a job, no record of the
\* job is in the Job Store in any later state, and a status query answers
\* not-found.
C7_DeletedStaysDeleted ==
    \A j \in deleted :
        /\ ~HasKeys(j)
        /\ (last.op = "status" /\ last.job = j) => last.code = 404

\* C8, as claimed: when vectorize-relationships succeeds with cleanup
\* requested, the job has status complete and only its chunks, entities and
\* relationships records are removed.
C8_CleanupKeepsComplete ==
    [][\A j \in JobIds :
          (/\ last'.op = "vectorize_relationships_end"
           /\ last'.job = j
           /\ last'.info = "cleaned"
           /\ \E k \in 1..MaxUnits : Acts(j, k, "vectorize_relationships"))
          => /\ meta'[j] # Absent
             /\ Val(meta'[j]).status = "complete"
             /\ chunks'[j] = Absent
             /\ entities'[j] = Absent
             /\ relationships'[j] = Absent]_vars

\* The step is the end of a vectorize-chunks unit of job j to which
\* embed_documents returned a vector of another length than the configured one.
WrongDimension(j) ==
    /\ last'.op = "vectorize_chunks_end"
    /\ last'.job = j
    /\ \E i \in 1..Len(last'.embs) : last'.embs[i] # EMBEDDING_DIMENSIONS
    /\ \E k \in 1..MaxUnits : Acts(j, k, "vectorize_chunks")

\* C9: when embed_documents returns a vector of the wrong length to
\* vectorize-chunks, no chunk point is upserted, the status of the job (if
\* the job is still stored) becomes error with a message, and it does not
\* become chunks_vectorized.
C9_WrongDimensionIsFatal ==
    [][\A j \in JobIds :
          WrongDimension(j)
          => /\ chunkPoints' = chunkPoints
             /\ meta[j] # Absent
                => /\ meta'[j] # Absent
                   /\ Val(meta'[j]).status = "error"
                   /\ Val(meta'[j]).error # NoError]_vars

\* C9 witness: a vectorize-chunks unit of a stored job ended on two vectors of
\* which only the second has the wrong length.
C9_Witness ==
    /\ last.op = "vectorize_chunks_end"
    /\ last.embs = <<EMBEDDING_DIMENSIONS, OtherDim>>
    /\ meta[last.job] # Absent
    /\ Val(meta[last.job]).status = "error"

\* C10, as claimed: a request to extract-relationships for a job that has
\* chunks and an empty entity list is accepted.
C10_ZeroEntitiesAccepted ==
    [][\A j \in JobIds :
          (/\ last' # last
           /\ last'.op = "extract_relationships"
           /\ last'.job = j
           /\ meta[j] # Absent
           /\ GetList(chunks[j]) # <<>>
           /\ entities[j] = Some(<<>>))
          => last'.code = 200]_vars

\* The batch and the mini-batch of the text at position i (from 1) start at
\* these offsets.
BatchOf(i) == ((i - 1) \div EMBEDDING_BATCH_SIZE) * EMBEDDING_BATCH_SIZE
MiniOf(i) == BatchOf(i) + (((i - 1) % EMBEDDING_BATCH_SIZE) \div MINI_BATCH_SIZE) * MINI_BATCH_SIZE

\* C11: whatever batches and mini-batches fail, embed_documents returns one
\* vector per text, in the order of the texts; the vector of a text is a zero
\* vector of the configured length exactly when its batch and then its
\* mini-batch failed; and with an embedder of the configured length the
\* dimension validation of the stage passes.
C11_FailedBatchNotFatal ==
    all_embeddings # Absent =>
        LET out == Val(all_embeddings)
        IN /\ Len(out) = Len(texts)
           /\ \A i \in 1..Len(out) :
                 /\ out[i].of = texts[i]
                 /\ out[i].zero <=> (/\ BatchOf(i) \in embeddings.failBatch
                                     /\ MiniOf(i) \in embeddings.failMini)
                 /\ out[i].zero => out[i].dim = EMBEDDING_DIMENSIONS
           /\ embeddings.dim = EMBEDDING_DIMENSIONS
              => ValidateEmbeddingDimensions([i \in 1..Len(out) |-> out[i].dim],
                                             EMBEDDING_DIMENSIONS)

\* C11 witness: of two batches the first failed, and of its mini-batches the
\* second failed again while the first was recovered.
C11_Witness ==
    /\ all_embeddings # Absent
    /\ Len(texts) > EMBEDDING_BATCH_SIZE
    /\ embeddings.dim = EMBEDDING_DIMENSIONS
    /\ embeddings.failBatch = {0}
    /\ embeddings.failMini = {MINI_BATCH_SIZE}
    /\ Len(Val(all_embeddings)) = Len(texts)
    /\ Val(all_embeddings)[MINI_BATCH_SIZE + 1].zero
    /\ ~Val(all_embeddings)[1].zero

\* The step is the end of the unit of stage s of job j in slot k, and the
\* graph store raised while the unit mirrored its points.
MirrorFailed(j, k, s) ==
    /\ last'.op = s \o "_end"
    /\ last'.job = j
    /\ last'.adapter = <<"failed">>
    /\ Acts(j, k, s)
    /\ units[j][k].store_graph

ExtractionReturned(j, k) ==
    /\ last'.op = "extract_entities_end"
    /\ last'.job = j
    /\ Acts(j, k, "extract_entities")
    /\ units[j][k].pc = "waiting"

\* C13: whatever chunks the extraction raises for, the unit saves the entities
\* of exactly the other chunks, in chunk order, each with the index of its
\* chunk, and the job (if it is still stored) has status entities_validated.
C13_PartialEntitySet ==
    [][\A j \in JobIds : \A k \in 1..MaxUnits :
          ExtractionReturned(j, k)
          => LET cs == units[j][k].chunks
                 o == last'.adapter
                 es == GetList(entities'[j])
             IN /\ entities'[j] # Absent
                /\ \A i \in 1..Len(cs) :
                      LET mine == SelectSeq(es, LAMBDA e : e.chunk_index = cs[i])
                      IN IF o[i] = "raise"
                         THEN mine = <<>>
                         ELSE [n \in 1..Len(mine) |-> mine[n].text] = Predictions(o[i])
                /\ \A n \in 1..Len(es) : \E i \in 1..Len(cs) : es[n].chunk_index = cs[i]
                /\ \A a, b \in 1..Len(es) :
                      a < b => \E x, y \in 1..Len(cs) :
                                 /\ x <= y
                                 /\ es[a].chunk_index = cs[x]
                                 /\ es[b].chunk_index = cs[y]
                /\ meta[j] # Absent
                   => /\ meta'[j] # Absent
                      /\ Val(meta'[j]).status = "entities_validated"]_vars

\* C13 witness: the extraction raised for the first of two chunks and found two
\* entities in the second; the job is at entities_validated with two entities.
C13_Witness ==
    /\ last.op = "extract_entities_end"
    /\ last.adapter = <<"raise", "two">>
    /\ meta[last.job] # Absent
    /\ Val(meta[last.job]).status = "entities_validated"
    /\ Len(GetList(entities[last.job])) = 2

\* The step is the end of the extract-relationships unit of job j in slot k
\* after its extraction returned.
RelationsReturned(j, k) ==
    /\ last'.op = "extract_relationships_end"
    /\ last'.job = j
    /\ Acts(j, k, "extract_relationships")
    /\ units[j][k].pc \in {"waiting", "running"}

\* C14: a chunk whose LLM call raises or whose answer does not parse
\* contributes no relationship; the one relationship of every other chunk
\* that was given to the LLM and answered with one is saved; and the job (if
\* it is still stored) has status relationships_extracted.
C14_FailedChunkContributesNothing ==
    [][\A j \in JobIds : \A k \in 1..MaxUnits :
          RelationsReturned(j, k)
          => LET cs == units[j][k].chunks
                 o == last'.adapter
                 rs == GetList(relationships'[j])
             IN /\ relationships'[j] # Absent
                /\ \A i \in 1..Len(cs) :
                      LET mine == SelectSeq(rs, LAMBDA r : r.chunk_index = cs[i])
                      IN /\ o[i] \in {"raise", "unparsable", "empty"} => mine = <<>>
                         /\ (o[i] = "one" /\ NeedsLLM(units[j][k].entities, cs[i]))
                            => Len(mine) = 1
                /\ meta[j] # Absent
                   => /\ meta'[j] # Absent
                      /\ Val(meta'[j]).status = "relationships_extracted"]_vars

\* C14 witness: of two chunks given to the LLM the call of the first raised
\* and the second gave one relationship, which is the one saved.
C14_Witness ==
    /\ last.op = "extract_relationships_end"
    /\ last.adapter = <<"raise", "one">>
    /\ meta[last.job] # Absent
    /\ Val(meta[last.job]).status = "relationships_extracted"
    /\ Len(GetList(relationships[last.job])) = 1
    /\ GetList(relationships[last.job])[1].chunk_index = 1

\* The number of entities that carry chunk index c.
EntitiesWithIndex(c) == Len(SelectSeq(relEntities, LAMBDA e : e.chunk_index = c))

\* C15: the LLM is invoked at most once per chunk and only for a chunk with
\* at least two entities; when the loop has ended it has been invoked for
\* every such chunk; at most five calls are in flight; and the tasks and
\* calls in progress all belong to one batch.
C15_BoundedRelationCalls ==
    /\ \A n \in 1..Len(relChunks) :
          /\ invoked[n] <= 1
          /\ invoked[n] = 1 => EntitiesWithIndex(relChunks[n]) >= 2
          /\ (LoopEnded(gather) /\ gather.tasks = {})
             => (invoked[n] = 1 <=> EntitiesWithIndex(relChunks[n]) >= 2)
    /\ Cardinality(gather.calls) <= 5
    /\ \A c, d \in gather.tasks \cup gather.calls : c \div 5 = d \div 5

\* C15 witness: the five calls of the first batch have all returned, and the
\* call of the sixth chunk is in flight.
C15_Witness ==
    /\ Len(relChunks) = 6
    /\ \A n \in 1..6 : EntitiesWithIndex(relChunks[n]) = 2
    /\ \A n \in 1..6 : invoked[n] = 1
    /\ gather.calls = {5}

C17_OtherJobsUntouched ==
    [][\A id \in StoredIds : \A st \in StageNames :
          (history'.op \in {"create_job", "update_job", "save_chunks", "save_entities",
                            "save_relationships", "delete_job"}
           /\ history'.id # id)
          => redis'[Key(id, st)] = redis[Key(id, st)]]_vars

\* C18, as claimed: once one retention window has passed since create_job, no
\* record of the job is in the store.
C18_ExpiresAfterCreation ==
    \A id \in StoredIds :
        (history.created[id] # -1 /\ now >= history.created[id] + TtlTicks)
        => \A st \in StageNames : redis[Key(id, st)] = Absent

\* C18, amended: every record that is in the store was written less than one
\* retention window ago and expires exactly one window after its last write.
C18_ExpiresAfterLastWrite ==
    \A k \in Keys :
        redis[k] # Absent
        => /\ Val(redis[k]).expires = history.written[k] + TtlTicks
           /\ now < history.written[k] + TtlTicks

\* C18 witness: the metadata was written again after the job was created and
\* is still there when the window since the creation has passed, while the
\* chunks, saved before that write, have expired.
C18_Witness ==
    /\ history.created[TtlJob] # -1
    /\ now >= history.created[TtlJob] + TtlTicks
    /\ redis[Key(TtlJob, "metadata")] # Absent
    /\ Val(redis[Key(TtlJob, "metadata")]).val = "updated"
    /\ history.written[Key(TtlJob, "chunks")] > history.created[TtlJob]
    /\ redis[Key(TtlJob, "chunks")] = Absent

\* The entries of a result list that carry the text t.
WithText(rs, t) == {i \in 1..Len(rs) : "text" \in DOMAIN rs[i] /\ rs[i].text = t}

\* The texts found by the vector search and by the graph search as well.
FoundTwice ==
    {t \in Texts : WithText(vector_results, t) # {} /\ WithText(graph_results, t) # {}}

\* C19, as claimed: after merge_results and rerank_results no two entries of
\* the reranked results have the same text, and a text found by both searches
\* has exactly one entry there, the one of the vector search (stated of the
\* retrievals asked for at least one result).
C19_OneVectorEntrySurvives ==
    (node = "format_context" /\ rerank_top_k > 0)
    => /\ \A t \in Texts : Cardinality(WithText(reranked_results, t)) <= 1
       /\ \A t \in FoundTwice :
            /\ Cardinality(WithText(reranked_results, t)) = 1
            /\ \A i \in WithText(reranked_results, t) : reranked_results[i].source = "vector"

\* C19, amended: no two entries of the merged or of the reranked results have
\* the same text; a text found by both searches has exactly one entry in the
\* merged results, the one of the vector search, and in the reranked results
\* that entry or, when it is not among the first rerank_top_k, none.
C19_DuplicatesCollapseToVector ==
    node \in {"rerank_results", "format_context"}
    => /\ \A t \in Texts :
            /\ Cardinality(WithText(combined_results, t)) <= 1
            /\ Cardinality(WithText(reranked_results, t)) <= 1
       /\ \A t \in FoundTwice :
            /\ Cardinality(WithText(combined_results, t)) = 1
            /\ \A i \in WithText(combined_results, t) : combined_results[i].source = "vector"
            /\ \A i \in WithText(reranked_results, t) : reranked_results[i].source = "vector"
       /\ node = "format_context"
          => /\ Len(reranked_results) = Min(rerank_top_k, Len(combined_results))
             /\ \A i \in 1..Len(reranked_results) :
                  \E j \in 1..Len(combined_results) :
                      /\ combined_results[j].text = reranked_results[i].text
                      /\ combined_results[j].source = reranked_results[i].source

\* C19 witness: a text was found by both searches, the merge dropped the
\* entry of the graph search and the reranked results carry the vector one.
C19_Witness ==
    /\ node = "format_context"
    /\ \E t \in FoundTwice :
         \E i \in WithText(reranked_results, t) : reranked_results[i].source = "vector"
    /\ Len(combined_results) < Len(vector_results) + Len(graph_results)
    /\ Len(reranked_results) < Len(combined_results)

\* C20, as claimed: no two results returned by hybrid_search have the same
\* text (stated of the texts that are not empty).
C20_HybridResultsUnique ==
    node = "returned"
    => \A t \in Texts \ {""} : Cardinality(WithText(reranked_results, t)) <= 1

\* Equality of two fractions.
SameFraction(a, b) == a[1] * b[2] = b[1] * a[2]

\* The greatest raw score of the vector results, at least 1.0 (in tenths).
NormalizingScore(vs) ==
    IF vs = <<>> \/ MaxVectorScore(vs) < 10 THEN 10 ELSE MaxVectorScore(vs)

\* C21, as claimed: every result of hybrid_search that came from the vector
\* search has final_score = rrf + normalized_similarity * 0.5, computed from
\* its own score, and every graph result has final_score = rrf + 0.3.
C21_VectorBoostFromScore ==
    node = "returned"
    => \A i \in 1..Len(combined_results) :
          LET r == combined_results[i]
              d == RRF_K + i
              m == NormalizingScore(vector_results)
          IN IF r.source = "graph"
             THEN SameFraction(r.final_score, <<10 + 3 * d, 10 * d>>)
             ELSE SameFraction(r.final_score, <<2 * m + r.score * d, 2 * m * d>>)

\* The concatenation of the vector results and the graph results.
Concatenation ==
    [i \in 1..(Len(vector_results) + Len(graph_results)) |->
        IF i <= Len(vector_results) THEN vector_results[i]
        ELSE graph_results[i - Len(vector_results)]]

\* The 0-based position in the concatenation of the first result with text t.
PositionOf(t) ==
    CHOOSE p \in 0..(Len(Concatenation) - 1) :
        /\ Concatenation[p + 1].text = t
        /\ \A q \in 0..(p - 1) : Concatenation[q + 1].text # t

\* The source boost rerank_results gives to a merged entry.
BoostOf(r) ==
    IF r.source = "vector"
    THEN <<r.normalized_score[1], 2 * r.normalized_score[2]>>
    ELSE <<3, 10>>

\* C22, as claimed: the final_score of every reranked entry is its boost plus
\* 1 / (60 + p + 1), p being the 0-based position of the entry in the
\* concatenation of vector and graph results before duplicates were dropped.
C22_RankIsConcatenationPosition ==
    node = "format_context"
    => \A i \in 1..Len(reranked_results) :
          \A j \in WithText(combined_results, reranked_results[i].text) :
             LET d == RRF_K + PositionOf(reranked_results[i].text) + 1
                 b == BoostOf(combined_results[j])
             IN SameFraction(reranked_results[i].final_score,
                             <<b[2] + b[1] * d, b[2] * d>>)

\* The texts of a result list, in order.
TextsOf(rs) == [i \in 1..Len(rs) |-> rs[i].text]

\* Vector results a (score 0.9), b (score 0.5), one graph result c, asked
\* for three results; t1, t2, t3 stand for a, b, c.
ThreeResults ==
    /\ vector_results = <<[text |-> "t1", score |-> 9, source |-> "vector"],
                          [text |-> "t2", score |-> 5, source |-> "vector"]>>
    /\ graph_results = <<[text |-> "t3", source |-> "graph"]>>
    /\ rerank_top_k = 3

\* C23, as claimed: for these inputs the reranked results are a, b, c.
C23_RankedABC ==
    (node = "format_context" /\ ThreeResults)
    => TextsOf(reranked_results) = <<"t1", "t2", "t3">>

\* C23, amended: for these inputs the reranked results are a, c, b: the flat
\* boost of the graph result is greater than the boost of b.
C23_RankedACB ==
    (node = "format_context" /\ ThreeResults)
    => TextsOf(reranked_results) = <<"t1", "t3", "t2">>

\* C23 witness: the three results have been reranked.
C23_Witness ==
    /\ node = "format_context"
    /\ ThreeResults
    /\ Len(reranked_results) = 3

\* The retrieval has produced its results.
Reranked == node \in {"format_context", "returned"}

\* The scored list the sort was applied to.
ScoredItems ==
    IF node = "returned" THEN combined_results
    ELSE [i \in 1..Len(combined_results) |->
            [text |-> combined_results[i].text,
             source |-> combined_results[i].source,
             final_score |-> RerankScore(combined_results[i], i - 1)]]

Returned == Val(chunked)

\* C25, as claimed: when every paragraph of the document is at most
\* chunk_size characters long, every chunk returned has a text of at most
\* chunk_size + chunk_overlap characters.
C25_ChunkLengthBounded ==
    (chunked # Absent /\ \A i \in 1..Len(document) : Len(document[i]) <= chunk_size)
    => \A k \in 1..Len(Returned) : Len(Returned[k].text) <= chunk_size + chunk_overlap

\* C26, as claimed: the chunks returned have the indices 0, 1, 2, ... in
\* the order they were emitted, and start_char rises strictly from chunk to
\* chunk (stated of a chunker with an overlap).
C26_StartsStrictlyIncrease ==
    (chunked # Absent /\ chunk_overlap > 0)
    => /\ \A k \in 1..Len(Returned) : Returned[k].index = k - 1
       /\ \A k \in 1..(Len(Returned) - 1) :
            Returned[k].start_char < Returned[k + 1].start_char

\* The paragraphs of a text, split at the separator.
RECURSIVE SplitParagraphs(_, _)
SplitParagraphs(str, para) ==
    IF str = <<>> THEN <<para>>
    ELSE IF Len(str) >= 2 /\ SubSeq(str, 1, 2) = Separator
    THEN <<para>> \o SplitParagraphs(SubSeq(str, 3, Len(str)), <<>>)
    ELSE SplitParagraphs(Tail(str), Append(para, Head(str)))

\* Chunk k without its overlap prefix: the tail copied from chunk k - 1 and
\* the separator.
Remainder(k) ==
    IF k = 1 \/ chunk_overlap = 0 THEN Returned[k].text
    ELSE SubSeq(Returned[k].text,
                Min(chunk_overlap, Len(Returned[k - 1].text)) + Len(Separator) + 1,
                Len(Returned[k].text))

\* The paragraphs of the remainders of the chunks from chunk k on.
RECURSIVE RemainderParagraphs(_)
RemainderParagraphs(k) ==
    IF k > Len(Returned) THEN <<>>
    ELSE SplitParagraphs(Remainder(k), <<>>) \o RemainderParagraphs(k + 1)

\* The paragraphs of the document that are not blank, stripped.
RECURSIVE NonBlank(_)
NonBlank(paras) ==
    IF paras = <<>> THEN <<>>
    ELSE IF Strip(Head(paras)) = <<>> THEN NonBlank(Tail(paras))
    ELSE <<Strip(Head(paras))>> \o NonBlank(Tail(paras))

\* C27: the chunks without their overlap prefixes, one after the other, are
\* the paragraphs of the document that are not blank, in their order, each
\* once.
C27_NoContentLost ==
    chunked # Absent => RemainderParagraphs(1) = NonBlank(document)

\* C27 witness: a document with a paragraph that has blanks to strip came
\* back as several chunks with an overlap, one of them holding more than one
\* paragraph.
C27_Witness ==
    /\ chunked # Absent
    /\ chunk_overlap > 0
    /\ Len(Returned) >= 2
    /\ \E i \in 1..Len(document) :
         Strip(document[i]) # document[i] /\ Strip(document[i]) # <<>>
    /\ Len(NonBlank(document)) > Len(Returned)

\* The stored progress of the jobs.
Progressing == {Val(meta[j]).progress : j \in {i \in JobIds : meta[i] # Absent}}

\* C28, as claimed: whenever total > 0 in a job's stored metadata,
\* percentage equals current / total.
C28_PercentageIsRatio ==
    \A p \in Progressing : p.total > 0 => p.percentage * p.total = p.current

\* C28, amended: whenever total > 0 in a job's stored metadata, percentage
\* equals current / total * 100.
C28_PercentageIsPercent ==
    \A p \in Progressing : p.total > 0 => p.percentage * p.total = p.current * 100

\* C28 witness: a job has stored a positive total.
C28_Witness ==
    \E p \in Progressing : p.total > 0 /\ p.current > 0

\* The artifact record a stage writes for job j.
ArtifactOf(s, j) ==
    CASE s = "process" -> chunks[j]
      [] s = "extract_entities" -> entities[j]
      [] s = "extract_relationships" -> relationships[j]

\* The stages that write an artifact record.
ArtifactStages == {"process", "extract_entities", "extract_relationships"}

\* A unit of stage s of job j all of whose adapter calls have returned.
AdaptersReturned(s, j) ==
    \E k \in 1..MaxUnits :
        /\ units[j][k].stage = s
        /\ units[j][k].pc \in (IF s = "process" THEN {"chunking"} ELSE {"waiting", "running"})

\* The list holds what every chunk of the unit has yielded.
Complete(s, j, list, outcome) ==
    \E k \in 1..MaxUnits :
        /\ units[j][k].stage = s
        /\ Len(outcome) = Len(units[j][k].chunks)
        /\ \A i \in 1..Len(units[j][k].chunks) :
             LET c == units[j][k].chunks[i]
                 got == Len(SelectSeq(list, LAMBDA x : x.chunk_index = c))
             IN IF s = "extract_entities"
                THEN got = Len(Predictions(outcome[i]))
                ELSE got = IF NeedsLLM(units[j][k].entities, c)
                           THEN Len(ProcessSingleRelationshipChunk(c, outcome[i]))
                           ELSE 0

\* C29: an artifact record is written only by the step in which a unit of
\* its stage goes on after all its adapter calls have returned, in one write
\* of the whole list; and when a job's status becomes the terminal status of
\* such a stage, the record has been written.
C29_ArtifactWrittenWhole ==
    [][\A j \in JobIds : \A s \in ArtifactStages :
          /\ (ArtifactOf(s, j)' # ArtifactOf(s, j) /\ ArtifactOf(s, j)' # Absent)
             => /\ last'.op = s \o "_end" /\ last'.job = j
                /\ AdaptersReturned(s, j)
                /\ s # "process" => Complete(s, j, Val(ArtifactOf(s, j)'), last'.adapter)
          /\ (/\ meta[j] # Absent /\ meta'[j] # Absent
              /\ Val(meta'[j]).status = TerminalStatus(s)
              /\ Val(meta[j]).status # TerminalStatus(s))
             => /\ ArtifactOf(s, j)' # Absent
                /\ last'.op = s \o "_end" /\ last'.job = j
                /\ s = "process" => Len(Val(chunks'[j])) = Val(meta'[j]).stats.chunks
                /\ s # "process" => Complete(s, j, Val(ArtifactOf(s, j)'), last'.adapter)]_vars

\* C29 witness: a relationship extraction that gave several chunks to the
\* LLM has ended, its relationships are stored and the status is terminal.
C29_Witness ==
    \E j \in JobIds :
        /\ last.op = "extract_relationships_end" /\ last.job = j /\ last.info = "ok"
        /\ Cardinality({i \in 1..Len(last.adapter) : last.adapter[i] = "one"}) >= 2
        /\ meta[j] # Absent
        /\ Val(meta[j]).status = TerminalStatus("extract_relationships")
        /\ relationships[j] # Absent
        /\ Len(Val(relationships[j])) >= 2

\* The step is the end of a unit of job j in its except clause: an adapter
\* call raised or the embeddings had the wrong dimension.
UnitRaised(j) ==
    /\ last'.job = j
    /\ last'.info \in {"failed", "dimension"}
    /\ \E k \in 1..MaxUnits : \E s \in Stages :
          Acts(j, k, s) /\ units'[j][k].pc = "idle"

Unfinished(s, j) ==
    \E k \in 1..MaxUnits : units[j][k].stage = s /\ units[j][k].pc # "idle"

\* C31: when a status query answers with the terminal status of a stage, no
\* acknowledged unit of that stage of the job is still unfinished, and the
\* artifact record of the stage is written; also when the stage was
\* triggered again on a job that had completed it.
C31_TerminalStatusMeansFinished ==
    \A j \in JobIds : \A s \in Stages :
        (/\ last.op = "status" /\ last.job = j /\ last.code = 200
         /\ last.info = TerminalStatus(s))
        => /\ ~Unfinished(s, j)
           /\ s \in ArtifactStages => ArtifactOf(s, j) # Absent

\* ------------------------------------------- the six stages, called in order

\* The stage whose terminal status the caller waits for before it triggers
\* stage s ("Monitoring" and "Next Step" of the triggers' descriptions).
Previous(s) ==
    StageOrder[CHOOSE i \in 1..(Len(StageOrder) - 1) : StageOrder[i + 1] = s]

\* The caller has seen the preceding stage end and has no unit of the job
\* outstanding.
Ready(j, s) ==
    /\ meta[j] # Absent
    /\ Val(meta[j]).status = TerminalStatus(Previous(s))
    /\ \A k \in 1..MaxUnits : units[j][k].pc = "idle"

\* The step met no failure: no adapter raised, the object was found, the
\* LLM's answers could be parsed, the vectors have the configured length,
\* the graph store worked.
Faultless ==
    /\ last'.code # 404
    /\ last'.info \notin {"failed", "dimension", "job not found"}
    /\ \A i \in DOMAIN last'.embs : last'.embs[i] = EMBEDDING_DIMENSIONS
    /\ \A i \in DOMAIN last'.adapter : last'.adapter[i] \notin {"raise", "unparsable", "failed"}

\* A request of the caller that follows the stage order.
CallerStep(j) ==
    \/ Ready(j, "extract_entities") /\ ExtractEntities(j)
    \/ Ready(j, "extract_relationships") /\ ExtractRelationships(j)
    \/ Ready(j, "vectorize_chunks") /\ VectorizeChunks(j)
    \/ Ready(j, "vectorize_entities") /\ VectorizeEntities(j)
    \/ Ready(j, "vectorize_relationships") /\ VectorizeRelationships(j)

\* A step of a background unit of job j.
UnitStep(j, k) ==
    \/ ProcessStart(j, k)
    \/ ProcessDownload(j, k)
    \/ ProcessChunk(j, k)
    \/ ExtractEntitiesStart(j, k)
    \/ ExtractEntitiesFinish(j, k)
    \/ ExtractRelationshipsStart(j, k)
    \/ ExtractRelationshipsFinish(j, k)
    \/ VectorizeChunksStart(j, k)
    \/ VectorizeChunksFinish(j, k)
    \/ VectorizeEntitiesStart(j, k)
    \/ VectorizeEntitiesFinish(j, k)
    \/ VectorizeRelationshipsStart(j, k)
    \/ VectorizeRelationshipsFinish(j, k)

Calls == \E j \in JobIds : CallerStep(j) /\ Faultless

Works == \E j \in JobIds : \E k \in 1..MaxUnits : UnitStep(j, k) /\ Faultless

NextOrderly ==
    \/ ProcessDocument /\ Faultless
    \/ \E j \in JobIds : GetStatus(j)
    \/ Calls
    \/ Works

\* The event loop runs every task it holds and every adapter call returns
\* (Works); the caller goes on to the next stage when it has seen the
\* preceding one end (Calls).
SpecOrderly ==
    Init /\ [][NextOrderly]_vars /\ WF_vars(Calls) /\ WF_vars(Works)

\* The document of job j was not empty: the process unit stored chunks.
NonEmptyDocument(j) ==
    /\ meta[j] # Absent
    /\ Val(meta[j]).status = TerminalStatus("process")
    /\ GetList(chunks[j]) # <<>>

\* The job has reached complete, or its records were removed by the cleanup
\* its last stage was asked for.
Completed(j) ==
    \/ meta[j] # Absent /\ Val(meta[j]).status = "complete"
    \/ j \in deleted

\* C32: when nothing fails and the caller triggers the six stages in order,
\* each after the preceding one reached its terminal status, every job with
\* a non-empty document eventually reaches complete, also when no entity or
\* no relationship was found.
C32_OrderlyJobCompletes ==
    \A j \in JobIds : NonEmptyDocument(j) ~> Completed(j)

\* The stored items of the job that carry the index c.
OfChunk(items, c) == SelectSeq(items, LAMBDA x : x.chunk_index = c)

\* C33: with enrich enabled, the payload upserted for each chunk lists the
\* text of exactly the stored entities whose chunk_index is the chunk's
\* index, and the source, relation and target of exactly the stored
\* relationships whose chunk_index is the chunk's index.
C33_PayloadListsChunkArtifacts ==
    [][(payloads = Absent /\ payloads' # Absent /\ enrich)
       => /\ Len(Val(payloads')) = Len(artifacts.chunks)
          /\ \A i \in 1..Len(Val(payloads')) :
               LET p == Val(payloads')[i]
                   es == OfChunk(artifacts.entities, p.chunk_index)
                   rs == OfChunk(GetList(artifacts.rels), p.chunk_index)
               IN /\ p.chunk_index = artifacts.chunks[i]
                  /\ p.entities = [k \in 1..Len(es) |-> es[k].text]
                  /\ [k \in 1..Len(p.relationships) |->
                        <<p.relationships[k].subject, p.relationships[k].predicate,
                          p.relationships[k].object>>]
                     = [k \in 1..Len(rs) |->
                        <<Get(rs[k], "source"), Get(rs[k], "relation"),
                          Get(rs[k], "target")>>]]_vars

\* C37: every relationship saved by extract-relationships has a non-empty
\* source, a non-empty relation and a non-empty target, and its chunk_index
\* is the index of a chunk of the job, the one it was extracted from.
C37_SavedRelationshipsWellFormed ==
    \A k \in 1..Len(GetList(artifacts.rels)) :
        LET r == GetList(artifacts.rels)[k]
        IN /\ Get(r, "source") # ""
           /\ Get(r, "relation") # ""
           /\ Get(r, "target") # ""
           /\ \E i \in 1..Len(artifacts.chunks) :
                 /\ artifacts.chunks[i] = r.chunk_index
                 /\ \E a \in 1..Len(answers[i]) :
                       \A key \in {"source", "relation", "target"} :
                           Get(answers[i][a], key) = Get(r, key)

\* C34: a paragraph longer than chunk_size comes back as a chunk whose text
\* is exactly that paragraph, without an overlap prefix and without another
\* paragraph, wherever it stands in the document.
C34_LongParagraphAlone ==
    chunked # Absent
    => \A i \in 1..Len(document) :
          Len(Strip(document[i])) > chunk_size
          => \E k \in 1..Len(Returned) : Returned[k].text = Strip(document[i])

\* C35: for every chunk returned, end_char - start_char is the length of
\* its text, and the characters of the document from start_char to end_char
\* are its text; also when paragraphs repeat or blank lines are irregular.
C35_OffsetsAnchorText ==
    chunked # Absent
    => \A k \in 1..Len(Returned) :
          LET c == Returned[k]
          IN /\ c.end_char - c.start_char = Len(c.text)
             /\ c.start_char >= 0
             /\ c.end_char <= Len(JoinParagraphs(document))
             /\ SubSeq(JoinParagraphs(document), c.start_char + 1, c.end_char) = c.text

\* The headings located at or before the offset that no later heading at or
\* before the offset, of an equal or smaller level number, has removed.
ActiveAt(hs, offset) ==
    {i \in 1..Len(hs) :
        /\ hs[i].position <= offset
        /\ \A j \in (i + 1)..Len(hs) :
              hs[j].position <= offset => hs[j].level > hs[i].level}

\* The members of a set of numbers in rising order.
RECURSIVE Ascending(_)
Ascending(S) ==
    IF S = {} THEN <<>>
    ELSE LET m == CHOOSE x \in S : \A y \in S : x <= y
         IN <<m>> \o Ascending(S \ {m})

\* C36: the header_hierarchy of a chunk is the header path active at its
\* start offset: the titles of the nearest enclosing headings located at or
\* before the offset, one per level at most, with strictly rising levels, a
\* later heading of equal or smaller level number removing the earlier ones
\* of its level and below; section is the last title of the path, or Root.
C36_HeaderPathAtStart ==
    context # Absent
    => LET active == Ascending(ActiveAt(headers, position))
           path == Val(context).header_hierarchy
       IN /\ path = [k \in 1..Len(active) |-> headers[active[k]].title]
          /\ \A k \in 1..(Len(active) - 1) :
                headers[active[k]].level < headers[active[k + 1]].level
          /\ Val(context).section = IF path = <<>> THEN "Root" ELSE path[Len(path)]

\* C38: merge_results completes without an error for every list of vector
\* results, and gives each vector result a normalized score between 0 and 1,
\* the best-scored result getting 1.
C38_MergeNormalizes ==
    /\ node # "raised"
    /\ node \in {"rerank_results", "format_context"}
       => \A i \in 1..Len(combined_results) :
             LET r == combined_results[i]
             IN r.source = "vector"
                => /\ r.normalized_score[2] > 0
                   /\ 0 <= r.normalized_score[1]
                   /\ r.normalized_score[1] <= r.normalized_score[2]
                   /\ r.score = MaxVectorScore(vector_results)
                      => r.normalized_score[1] = r.normalized_score[2]

\* C39: when no external collaborator fails, the ingestion workflow ends
\* with error unset and processed_count equal to the number of documents
\* found, every document processed once, in listing order; for any number
\* of documents, zero included, and whether or not relationships were
\* extracted.
C39_IngestsEveryDocument ==
    (current_node \in {"END", "raised"} /\ collaborators = "ok")
    => /\ current_node = "END"
       /\ state.error = NoError
       /\ state.processed_count = Len(state.documents)
       /\ ingested = state.documents

====
